---- MODULE Spec2Model ----
(***************************************************************************)
(* Model of the trust subsystem of the V2X communication simulator:        *)
(* security/security_manager.py (CertifyingAuthority, the vehicle and      *)
(* infrastructure hardware security modules, message_verifier) and         *)
(* security/settings.py.                                                   *)
(*                                                                         *)
(* Cryptography is symbolic: a key pair is an identifier, a signature is   *)
(* the pair (signing key, signed bytes) and verifies only under the        *)
(* matching public key over the same bytes.  random_serial_number() and    *)
(* ec.generate_private_key() draw from a 159-bit and a 256-bit space; they *)
(* are modelled as returning values never returned before.                 *)
(*                                                                         *)
(* Time is the wall clock read by datetime.now(timezone.utc), in ticks.    *)
(***************************************************************************)
EXTENDS Integers, Sequences, FiniteSets, TLC

(***************************************************************************)
(* Configuration (security/settings.py), scaled down, and model bounds.    *)
(***************************************************************************)
\* settings.NO_OF_VEH_CERTS (100 in the repository): certificates per batch
NO_OF_VEH_CERTS == 3
\* settings.NO_OF_MSG_CERT_ROT (10 in the repository): rotation period
NO_OF_MSG_CERT_ROT == 3
\* settings.CERT_VALIDITY (10 minutes in the repository), in ticks
CERT_VALIDITY == 1
\* the wall clock ranges over 0..MaxTime
MaxTime == 2
\* number of add_revocation calls in a behaviour
MaxRevocations == 1
\* number of prepare_message calls on one infrastructure holder
MaxInfraMessages == 2
\* number of credential holders the simulation registers in a behaviour
MaxHolders == 1

\* number of build_certificate calls made on the authority directly
MaxIssued == 2
\* number of add_revocation calls made on the authority directly
MaxAuthorityRevocations == 2

\* certificates the authority issues in a behaviour: two vehicle batches
\* (one regeneration) and one infrastructure certificate
MaxCerts == 2 * NO_OF_VEH_CERTS + 1

Vehicles == {"v1"}
Infrastructures == {"i1"}

\* keys of the caller's field maps; TimestampKey stands for
\* "security_timestamp", which sorts between the other two
FieldKeys == {1, 3}
TimestampKey == 2
FieldValues == {0}
Reasons == {"key compromise", "superseded"}
Issuers == {"V2X-Root-CA"}

VARIABLES
    now,              \* wall clock, datetime.now(timezone.utc)
    ca,               \* the CertifyingAuthority object
    nextSerial,       \* entropy: the next fresh serial number / key pair
    revocations,      \* number of add_revocation calls made so far
    vehicles,         \* SimulationManager.simulation_entities['vehicles']
    infrastructures,  \* SimulationManager.simulation_entities['infrastructures']
    calls,            \* per vehicle: prepare_message calls since the last batch was generated
    exchange,         \* the payload handed to the receiver and its verification
    raised,           \* exception raised by the last prepare_message call ("none": it returned)
    startup,          \* the program's start: its phase, the key files, settings.CERT_VALIDITY
    settings,         \* settings.NO_OF_VEH_CERTS and settings.NO_OF_MSG_CERT_ROT
    threads,          \* per thread of control: the call it is in, its position and locals
    event             \* the event the communication handlers looked at last

vars == <<now, ca, nextSerial, revocations, vehicles, infrastructures, calls,
          exchange, raised, startup, settings, threads, event>>

\* the variables of the configuration, of the threads and of the channel
\* events, which the calls made one at a time on a configured program leave
\* alone
aside == <<settings, threads, event>>

(***************************************************************************)
(* Symbolic cryptography                                                   *)
(***************************************************************************)
\* key pairs
CAKeyPair == <<"ca", 0>>
RogueKeyPair == <<"rogue", 0>>
NoneKey == [sk |-> <<"none", 0>>]

\* ec.generate_private_key(settings.KEY_CURVE): the n-th fresh key pair
GeneratePrivateKey(n) == [sk |-> <<"ec", n>>]

\* private_key.public_key()
PublicKeyOf(private_key) == [pk |-> private_key.sk]

\* private_key.sign(data, settings.SIGNATURE_ALGORITHM)
Sign(private_key, data) == [signer |-> private_key.sk, data |-> data]

\* public_key.verify(signature, data, ...): TRUE when it returns, FALSE when
\* it raises InvalidSignature
SignatureVerifies(public_key, signature, data) ==
    /\ signature.signer = public_key.pk
    /\ signature.data = data

\* base64.b64encode(...).decode("ascii") and base64.b64decode(...)
Base64Encode(raw) == [b64 |-> raw]
Base64Decode(text) == text.b64

(***************************************************************************)
(* Certificates                                                            *)
(***************************************************************************)
\* the to-be-signed body of an X.509 certificate (tbs_certificate_bytes)
TbsCertificate(serial, entity_type, entity_id, public_key, not_before, not_after) ==
    [serial_number |-> serial,
     subject |-> <<entity_type, entity_id>>,
     issuer |-> "V2X-Root-CA",
     public_key |-> public_key,
     not_valid_before |-> not_before,
     not_valid_after |-> not_after]

\* builder.sign(private_key, settings.HASH_ALGORITHM)
SignCertificate(tbs, private_key) == [tbs |-> tbs, signature |-> Sign(private_key, tbs)]

\* cert.public_bytes(serialization.Encoding.PEM)
PemBytes(cert) == [encoding |-> "pem-bytes", cert |-> cert]
\* the same PEM text as a str
PemStr(cert) == [encoding |-> "pem-str", cert |-> cert]
\* bytes that are no PEM certificate
NoCert == SignCertificate(TbsCertificate(0, "none", "none", PublicKeyOf(NoneKey), 0, 0), NoneKey)
GarbageBytes == [encoding |-> "garbage", cert |-> NoCert]
\* Python None in a certificate slot
NoneCert == [encoding |-> "None", cert |-> NoCert]

(***************************************************************************)
(* Python dict helpers                                                     *)
(***************************************************************************)
EmptyDict == [k \in {} |-> 0]
DictSet(d, key, value) == [k \in DOMAIN d \cup {key} |-> IF k = key THEN value ELSE d[k]]

(***************************************************************************)
(* message_verifier                                                        *)
(***************************************************************************)
\* The verdict strings the verifier returns, named as in the design:
\*   "Message Verified!"                         Verified
\*   "Certificate not signed by Root CA: ..."    CertNotTrusted
\*   "Certificate expired or not yet valid"      CertExpiredOrNotYetValid
\*   "Certificate <serial> is revoked ..."       CertRevoked (serial, date, reason)
\*   "Signatures were not verified: ..."         SignatureInvalid
Verdict(kind) == [kind |-> kind, serial |-> 0, date |-> 0, reason |-> ""]
RevokedVerdict(serial, entry) ==
    [kind |-> "CertRevoked", serial |-> serial, date |-> entry.date, reason |-> entry.reason]
NoVerdict == Verdict("none")

Returned(verdict) == [raised |-> "none", verdict |-> verdict]
Raises(exception) == [raised |-> exception, verdict |-> NoVerdict]

\* load_pem_x509_certificate(cert_pem) returns a certificate
Decodable(certificate) == certificate.encoding \in {"pem-bytes", "pem-str"}
\* the exception load_pem_x509_certificate raises otherwise
DecodeError(certificate) ==
    IF certificate.encoding = "None" THEN "TypeError" ELSE "ValueError"

\* mutant: trusts the issuer name instead of the root's signature
CertSignedByCA_IssuerName(cert, ca_obj) == cert.tbs.issuer = "V2X-Root-CA"

\* Step 1: ca.ca_pub_key.verify(cert.signature, cert.tbs_certificate_bytes, ...)
CertSignedByCA(cert, ca_obj) ==
    SignatureVerifies(ca_obj.ca_pub_key, cert.signature, cert.tbs)

\* mutant: the window is open at both ends
TimeValid_Strict(cert, clock) ==
    ~ (cert.tbs.not_valid_before >= clock \/ cert.tbs.not_valid_after <= clock)

\* mutant: only expiry is tested
TimeValid_NoLowerBound(cert, clock) == ~ (cert.tbs.not_valid_after < clock)

\* Step 2: not (not_before > now or not_after < now)
TimeValid(cert, clock) ==
    ~ (cert.tbs.not_valid_before > clock \/ cert.tbs.not_valid_after < clock)

\* Step 3: cert.serial_number in ca.crl
InCrl(cert, ca_obj) == cert.tbs.serial_number \in DOMAIN ca_obj.crl

\* mutant: the signature is matched to the key, not to the message
PayloadSignatureValid_KeyOnly(payload, cert) ==
    Base64Decode(payload.signature).signer = cert.tbs.public_key.pk

\* Step 4: cert.public_key().verify(base64.b64decode(payload['signature']), message, ...)
PayloadSignatureValid(payload, cert) ==
    SignatureVerifies(cert.tbs.public_key, Base64Decode(payload.signature), payload.message)

\* mutant: the payload signature is checked before the revocation list
message_verifier_SignatureFirst(payload, ca_obj, clock) ==
    IF ~ Decodable(payload.certificate)
    THEN Raises(DecodeError(payload.certificate))
    ELSE LET cert == payload.certificate.cert IN
         IF ~ CertSignedByCA(cert, ca_obj)
         THEN Returned(Verdict("CertNotTrusted"))
         ELSE IF ~ TimeValid(cert, clock)
         THEN Returned(Verdict("CertExpiredOrNotYetValid"))
         ELSE IF ~ PayloadSignatureValid(payload, cert)
         THEN Returned(Verdict("SignatureInvalid"))
         ELSE IF InCrl(cert, ca_obj)
         THEN Returned(RevokedVerdict(cert.tbs.serial_number,
                                      ca_obj.crl[cert.tbs.serial_number]))
         ELSE Returned(Verdict("Verified"))

\* message_verifier(payload, ca); clock is the value datetime.now() returns
\* inside the call
message_verifier(payload, ca_obj, clock) ==
    IF ~ Decodable(payload.certificate)
    THEN Raises(DecodeError(payload.certificate))
    ELSE LET cert == payload.certificate.cert IN
         IF ~ CertSignedByCA(cert, ca_obj)
         THEN Returned(Verdict("CertNotTrusted"))
         ELSE IF ~ TimeValid(cert, clock)
         THEN Returned(Verdict("CertExpiredOrNotYetValid"))
         ELSE IF InCrl(cert, ca_obj)
         THEN Returned(RevokedVerdict(cert.tbs.serial_number,
                                      ca_obj.crl[cert.tbs.serial_number]))
         ELSE IF ~ PayloadSignatureValid(payload, cert)
         THEN Returned(Verdict("SignatureInvalid"))
         ELSE Returned(Verdict("Verified"))

(***************************************************************************)
(* CertifyingAuthority                                                     *)
(***************************************************************************)
\* CertifyingAuthority.__init__: the key files hold the two halves of one
\* key pair (utilities/generate_and_save_keys.py)
CertifyingAuthority ==
    [ca_pvt_key |-> [sk |-> CAKeyPair],
     ca_pub_key |-> [pk |-> CAKeyPair],
     ca_vehicles |-> EmptyDict,
     ca_infrastructures |-> EmptyDict,
     crl |-> EmptyDict]

\* the validity window build_certificate writes into the certificate
NotValidBefore(clock) == clock
NotValidAfter(clock) == clock + CERT_VALIDITY

\* mutant: issuing a certificate starts a new revocation list
RecordIssued_NewCrl(ca_obj, entity_id, entity_type, cert) ==
    LET listed == IF entity_id \in DOMAIN ca_obj.ca_vehicles
                  THEN ca_obj.ca_vehicles
                  ELSE DictSet(ca_obj.ca_vehicles, entity_id, <<>>)
    IN IF entity_type = "vehicle"
       THEN [ca_obj EXCEPT !.ca_vehicles =
                               DictSet(listed, entity_id, Append(listed[entity_id], cert)),
                           !.crl = EmptyDict]
       ELSE [ca_obj EXCEPT !.ca_vehicles = listed,
                           !.ca_infrastructures = DictSet(@, entity_id, cert),
                           !.crl = EmptyDict]

\* the ledger update at the end of build_certificate
RecordIssued(ca_obj, entity_id, entity_type, cert) ==
    LET listed == IF entity_id \in DOMAIN ca_obj.ca_vehicles
                  THEN ca_obj.ca_vehicles
                  ELSE DictSet(ca_obj.ca_vehicles, entity_id, <<>>)
    IN IF entity_type = "vehicle"
       THEN [ca_obj EXCEPT !.ca_vehicles =
                               DictSet(listed, entity_id, Append(listed[entity_id], cert))]
       ELSE [ca_obj EXCEPT !.ca_vehicles = listed,
                           !.ca_infrastructures = DictSet(@, entity_id, cert)]

\* CertifyingAuthority.build_certificate; serial is the value
\* random_serial_number() returns.  Result: the authority afterwards and the
\* PEM certificate returned.
build_certificate(ca_obj, serial, entity_id, entity_type, entity_pub_key, clock) ==
    LET tbs == TbsCertificate(serial, entity_type, entity_id, entity_pub_key,
                              NotValidBefore(clock), NotValidAfter(clock))
        cert == PemBytes(SignCertificate(tbs, ca_obj.ca_pvt_key))
    IN [ca |-> RecordIssued(ca_obj, entity_id, entity_type, cert), cert |-> cert]

\* mutant: an entry that exists is kept as it is
add_revocation_KeepsFirst(ca_obj, serial_number, reason, issuer, clock) ==
    IF serial_number \in DOMAIN ca_obj.crl
    THEN ca_obj
    ELSE [ca_obj EXCEPT !.crl = DictSet(@, serial_number,
                                        [issuer |-> issuer, date |-> clock, reason |-> reason])]

\* CertifyingAuthority.add_revocation
add_revocation(ca_obj, serial_number, reason, issuer, clock) ==
    [ca_obj EXCEPT !.crl = DictSet(@, serial_number,
                                   [issuer |-> issuer, date |-> clock, reason |-> reason])]

(***************************************************************************)
(* Message preparation shared by both holders                              *)
(***************************************************************************)
\* data = dict(data); data["security_timestamp"] = datetime.now(...).isoformat()
Stamped(data, clock) ==
    [k \in DOMAIN data \cup {TimestampKey} |-> IF k = TimestampKey THEN clock ELSE data[k]]

\* data = dict(data): the local name is bound to a copy, the caller keeps its map
DictCopy(data) == [caller |-> data, local |-> data]

\* mutant: the local name still refers to the caller's map
StampLocal_Aliased(frame, clock) ==
    [caller |-> Stamped(frame.local, clock), local |-> Stamped(frame.local, clock)]

\* data["security_timestamp"] = ...: an assignment into the map the local name
\* refers to
StampLocal(frame, clock) == [frame EXCEPT !.local = Stamped(@, clock)]

RECURSIVE DumpsSorted(_, _)
DumpsSorted(d, keys) ==
    IF keys = {} THEN <<>>
    ELSE LET k == CHOOSE x \in keys : \A y \in keys : x <= y
         IN <<<<k, d[k]>>>> \o DumpsSorted(d, keys \ {k})

\* json.dumps(data, sort_keys=True, separators=(',', ':')).encode("utf-8")
JsonDumps(data) == DumpsSorted(data, DOMAIN data)

\* mutant: the signature is made before the timestamp is stamped on
Payload_SignedBeforeStamp(message, private_key, certificate) ==
    [message |-> message,
     signature |-> Base64Encode(Sign(private_key,
                       SelectSeq(message, LAMBDA field : field[1] # TimestampKey))),
     certificate |-> certificate]

\* the payload dictionary both prepare_message methods return
Payload(message, private_key, certificate) ==
    [message |-> message,
     signature |-> Base64Encode(Sign(private_key, message)),
     certificate |-> certificate]

(***************************************************************************)
(* VehicleHardwareSecurityModule                                           *)
(*                                                                         *)
(* The holder's methods act on a world w = [hsm, ca, entropy]: the holder  *)
(* object, the authority it references and the next fresh serial / key.    *)
(* Python lists are sequences; list[i] is seq[i + 1].                      *)
(***************************************************************************)
\* VehicleHardwareSecurityModule.__init__
VehicleHardwareSecurityModule(vehicle_id) ==
    [vehicle_id |-> vehicle_id,
     index_number |-> 0,
     message_count |-> 0,
     current_private_key |-> NoneKey,
     current_certificate |-> NoneCert,
     private_key |-> <<>>,
     certificate |-> <<>>]

World(hsm, ca_obj, entropy) == [hsm |-> hsm, ca |-> ca_obj, entropy |-> entropy]

\* one iteration of the loop of generate_vehicle_cert
IssueOne(w, clock) ==
    LET private_key == GeneratePrivateKey(w.entropy)
        built == build_certificate(w.ca, w.entropy, w.hsm.vehicle_id, "vehicle",
                                   PublicKeyOf(private_key), clock)
    IN World([w.hsm EXCEPT !.private_key = Append(@, private_key),
                           !.certificate = Append(@, built.cert)],
             built.ca, w.entropy + 1)

RECURSIVE IssueBatch(_, _, _)
\* for _ in range(k): ...
IssueBatch(w, k, clock) ==
    IF k = 0 THEN w ELSE IssueBatch(IssueOne(w, clock), k - 1, clock)

\* mutant: the key follows the index, the certificate stays the first one
SelectCurrent_FirstCertificate(hsm) ==
    [hsm EXCEPT !.current_private_key = hsm.private_key[hsm.index_number + 1],
                !.current_certificate = hsm.certificate[1]]

\* self.current_private_key = self.private_key[self.index_number], and the
\* same for the certificate
SelectCurrent(hsm) ==
    [hsm EXCEPT !.current_private_key = hsm.private_key[hsm.index_number + 1],
                !.current_certificate = hsm.certificate[hsm.index_number + 1]]

\* VehicleHardwareSecurityModule.generate_vehicle_cert
generate_vehicle_cert(w, clock) ==
    LET issued == IssueBatch(w, settings.NO_OF_VEH_CERTS, clock)
    IN [issued EXCEPT !.hsm = SelectCurrent(issued.hsm)]

\* mutant: the last credential of the batch serves a whole rotation period too
BatchExhausted_AfterFullPeriod(hsm) ==
    /\ hsm.index_number = settings.NO_OF_VEH_CERTS - 1
    /\ hsm.message_count = settings.NO_OF_MSG_CERT_ROT - 1

\* the test of certificate_rotation for the exhausted batch
BatchExhausted(hsm) == hsm.index_number = settings.NO_OF_VEH_CERTS - 1

\* mutant: rotation every R messages
RotationDue_EveryR(hsm) ==
    /\ hsm.message_count % settings.NO_OF_MSG_CERT_ROT = 0
    /\ hsm.message_count # 0

\* the test of certificate_rotation for a due rotation (the modulus is not 0)
RotationDue(hsm) ==
    /\ hsm.message_count % (settings.NO_OF_MSG_CERT_ROT - 1) = 0
    /\ hsm.message_count # 0

\* mutant: the lists are not cleared
ClearBatch_KeepsLists(hsm) ==
    [hsm EXCEPT !.message_count = 0,
                !.index_number = 0,
                !.current_private_key = NoneKey,
                !.current_certificate = NoneCert]

\* mutant: the count runs on over a regeneration
ClearBatch_KeepsCount(hsm) ==
    [hsm EXCEPT !.private_key = <<>>,
                !.certificate = <<>>,
                !.index_number = 0,
                !.current_private_key = NoneKey,
                !.current_certificate = NoneCert]

\* the reset certificate_rotation does before it generates a new batch
ClearBatch(hsm) ==
    [hsm EXCEPT !.private_key = <<>>,
                !.certificate = <<>>,
                !.message_count = 0,
                !.index_number = 0,
                !.current_private_key = NoneKey,
                !.current_certificate = NoneCert]

\* mutant: the index advances and the count runs on
Advance_KeepsCount(hsm) == [hsm EXCEPT !.index_number = hsm.index_number + 1]

\* mutant: a due rotation moves the index on by two
Advance_SkipsOne(hsm) ==
    [hsm EXCEPT !.index_number = hsm.index_number + 2, !.message_count = 0]

\* the index and count update of a due rotation
Advance(hsm) ==
    [hsm EXCEPT !.index_number = hsm.index_number + 1, !.message_count = 0]

\* VehicleHardwareSecurityModule.certificate_rotation.  Result: the world
\* afterwards and the exception raised ("none" when it returns).
certificate_rotation(w, clock) ==
    IF BatchExhausted(w.hsm)
    THEN [w |-> generate_vehicle_cert([w EXCEPT !.hsm = ClearBatch(w.hsm)], clock),
          raised |-> "none"]
    ELSE IF settings.NO_OF_MSG_CERT_ROT - 1 = 0
    THEN [w |-> w, raised |-> "ZeroDivisionError"]
    ELSE IF RotationDue(w.hsm)
    THEN LET advanced == Advance(w.hsm) IN
         IF advanced.index_number + 1 > Len(advanced.private_key)
         THEN [w |-> [w EXCEPT !.hsm = advanced], raised |-> "IndexError"]
         ELSE [w |-> [w EXCEPT !.hsm = SelectCurrent(advanced)], raised |-> "none"]
    ELSE [w |-> w, raised |-> "none"]

\* serials an action needs before it may run (the model issues at most
\* MaxCerts certificates)
SerialsLeft(entropy, k) == entropy + k - 1 <= MaxCerts

\* the regeneration branch of certificate_rotation issues a whole batch
NeedsBatch(hsm) == BatchExhausted(hsm)

NoPayload == Payload(<<>>, NoneKey, NoneCert)

\* VehicleHardwareSecurityModule.prepare_message.  Result: the world
\* afterwards, the exception raised ("none" when it returns), the payload
\* returned and the caller's field map after the call.
vehicle_prepare_message(w, data, clock) ==
    LET rotated == certificate_rotation(w, clock) IN
    IF rotated.raised # "none"
    THEN [w |-> rotated.w, raised |-> rotated.raised, payload |-> NoPayload, data |-> data]
    ELSE LET frame == StampLocal(DictCopy(data), clock)
             counted == [rotated.w EXCEPT !.hsm.message_count = @ + 1]
             message == JsonDumps(frame.local)
         IN IF counted.hsm.current_private_key = NoneKey
            THEN [w |-> counted, raised |-> "AttributeError", payload |-> NoPayload,
                  data |-> frame.caller]
            ELSE [w |-> counted, raised |-> "none",
                  payload |-> Payload(message, counted.hsm.current_private_key,
                                      counted.hsm.current_certificate),
                  data |-> frame.caller]

(***************************************************************************)
(* InfrastructureHardwareSecurityModule                                    *)
(***************************************************************************)
\* InfrastructureHardwareSecurityModule.__init__
InfrastructureHardwareSecurityModule(infra_id) ==
    [infra_id |-> infra_id,
     private_key |-> NoneKey,
     certificate |-> NoneCert,
     message_count |-> 0]

\* InfrastructureHardwareSecurityModule.generate_infra_cert
generate_infra_cert(w, clock) ==
    LET private_key == GeneratePrivateKey(w.entropy)
        built == build_certificate(w.ca, w.entropy, w.hsm.infra_id, "infrastructure",
                                   PublicKeyOf(private_key), clock)
    IN World([w.hsm EXCEPT !.private_key = private_key, !.certificate = built.cert],
             built.ca, w.entropy + 1)

\* mutant: a holder that has signed before takes a new credential first
infra_prepare_message_Regenerating(w, data, clock) ==
    LET renewed == IF w.hsm.message_count > 0 THEN generate_infra_cert(w, clock) ELSE w
        counted == [renewed EXCEPT !.hsm.message_count = @ + 1]
        frame == StampLocal(DictCopy(data), clock)
        message == JsonDumps(frame.local)
    IN [w |-> counted, raised |-> "none",
        payload |-> Payload(message, counted.hsm.private_key, counted.hsm.certificate),
        data |-> frame.caller]

\* InfrastructureHardwareSecurityModule.prepare_message
infra_prepare_message(w, data, clock) ==
    LET counted == [w EXCEPT !.hsm.message_count = @ + 1]
        frame == StampLocal(DictCopy(data), clock)
        message == JsonDumps(frame.local)
    IN IF counted.hsm.private_key = NoneKey
       THEN [w |-> counted, raised |-> "AttributeError", payload |-> NoPayload,
             data |-> frame.caller]
       ELSE [w |-> counted, raised |-> "none",
             payload |-> Payload(message, counted.hsm.private_key, counted.hsm.certificate),
             data |-> frame.caller]

(***************************************************************************)
(* The exchange: the payload a receiver holds and what the verifier said   *)
(* about it (the locals `message` and `verification` of the communication  *)
(* handlers of main.py).  sent is the payload as prepare_message returned  *)
(* it, payload is what the receiver got, latest tells that no later        *)
(* prepare_message call was made on the sender.                            *)
(***************************************************************************)
\* the caller's field maps: the empty map and the maps with every key
FieldMaps == {EmptyDict} \cup [FieldKeys -> FieldValues]

\* no message_verifier call was made on the payload yet
NotVerified == Raises("none")

NewExchange(sender, payload) ==
    <<[sender |-> sender, sent |-> payload, payload |-> payload, latest |-> TRUE,
       verification |-> NotVerified]>>

\* a prepare_message call on sender that returned nothing: the payload held
\* is no longer what its latest call returned
Aged(x, sender) ==
    IF x # <<>> /\ x[1].sender = sender THEN <<[x[1] EXCEPT !.latest = FALSE]>> ELSE x

\* what a channel can turn a message into: emptied, truncated, one value changed
AlteredMessages(message) ==
    IF message = <<>> THEN {}
    ELSE ({<<>>, Tail(message)}
            \cup {[message EXCEPT ![1] = <<message[1][1], message[1][2] + 1>>]}) \ {message}

\* certificates an attacker can put in place of a decodable one: a str
\* re-encoding, garbage, the same body signed by another authority, the body
\* with a longer validity or another serial under the old signature
SubstituteCertificates(certificate) ==
    LET c == certificate.cert
        rogue == [sk |-> RogueKeyPair]
    IN {PemStr(c), GarbageBytes, NoneCert,
        PemBytes(SignCertificate(c.tbs, rogue)),
        PemBytes([c EXCEPT !.tbs.not_valid_after = @ + 1]),
        PemBytes([c EXCEPT !.tbs.serial_number = 0])}

\* a payload built by an attacker with its own key pair and its own authority,
\* copying the serial and the validity window of a genuine certificate
ForgedPayload(payload) ==
    LET c == payload.certificate.cert
        rogue == [sk |-> RogueKeyPair]
        tbs == [c.tbs EXCEPT !.public_key = PublicKeyOf(rogue)]
    IN Payload(payload.message, rogue, PemBytes(SignCertificate(tbs, rogue)))

TamperedPayloads(payload) ==
    {[payload EXCEPT !.message = m] : m \in AlteredMessages(payload.message)}
    \cup {[payload EXCEPT !.signature =
              Base64Encode(Sign([sk |-> RogueKeyPair], payload.message))]}
    \cup {[payload EXCEPT !.certificate = c] :
              c \in SubstituteCertificates(payload.certificate)}
    \cup {ForgedPayload(payload)}

(***************************************************************************)
(* Initial state and actions                                               *)
(***************************************************************************)
Untracked == 0 - 1

\* settings.py as the program is configured
Configured ==
    [NO_OF_VEH_CERTS |-> NO_OF_VEH_CERTS, NO_OF_MSG_CERT_ROT |-> NO_OF_MSG_CERT_ROT]

\* one thread of control, which is in no call that can be interleaved
NoThreads == <<>>

\* the communication handlers have looked at no event
NoEvent == [kind |-> "none"]

\* the program after a start that succeeded: the key files were loaded, the
\* simulation is running, the validity is the configured one
Started == [phase |-> "running", keys |-> "ok", validity |-> CERT_VALIDITY]

Init ==
    /\ now = 0
    /\ ca = CertifyingAuthority
    /\ nextSerial = 1
    /\ revocations = 0
    /\ vehicles = EmptyDict
    /\ infrastructures = EmptyDict
    /\ calls = [v \in Vehicles |-> Untracked]
    /\ exchange = <<>>
    /\ raised = "none"
    /\ startup = Started
    /\ settings = Configured
    /\ threads = NoThreads
    /\ event = NoEvent

\* the wall clock advances
Tick ==
    /\ now < MaxTime
    /\ now' = now + 1
    /\ UNCHANGED <<aside, startup, ca, nextSerial, revocations, vehicles, infrastructures, calls,
                   exchange, raised>>

\* the wall clock is set back (datetime.now is not monotonic)
ClockStepBack ==
    /\ now > 0
    /\ now' = now - 1
    /\ UNCHANGED <<aside, startup, ca, nextSerial, revocations, vehicles, infrastructures, calls,
                   exchange, raised>>

\* VehicleHardwareSecurityModule(veh_id, self.ca)
NewVehicle(v) ==
    /\ v \notin DOMAIN vehicles
    /\ vehicles' = DictSet(vehicles, v, VehicleHardwareSecurityModule(v))
    /\ UNCHANGED <<aside, startup, now, ca, nextSerial, revocations, infrastructures, calls,
                   exchange, raised>>

\* the batch is fresh: N credentials, index 0, count 0
FreshBatch(hsm) ==
    /\ Len(hsm.certificate) = settings.NO_OF_VEH_CERTS
    /\ hsm.index_number = 0
    /\ hsm.message_count = 0

\* vehicles[v].generate_vehicle_cert()
GenerateVehicleCert(v) ==
    /\ v \in DOMAIN vehicles
    /\ SerialsLeft(nextSerial, settings.NO_OF_VEH_CERTS)
    /\ LET w == generate_vehicle_cert(World(vehicles[v], ca, nextSerial), now) IN
         /\ vehicles' = [vehicles EXCEPT ![v] = w.hsm]
         /\ ca' = w.ca
         /\ nextSerial' = w.entropy
         /\ calls' = [calls EXCEPT ![v] = IF FreshBatch(w.hsm) THEN 0 ELSE Untracked]
    /\ UNCHANGED <<aside, startup, now, revocations, infrastructures, exchange, raised>>

\* message = vehicles[v].prepare_message(data)
VehiclePrepareMessage(v, data) ==
    /\ v \in DOMAIN vehicles
    /\ NeedsBatch(vehicles[v]) => SerialsLeft(nextSerial, settings.NO_OF_VEH_CERTS)
    /\ LET r == vehicle_prepare_message(World(vehicles[v], ca, nextSerial), data, now) IN
         /\ vehicles' = [vehicles EXCEPT ![v] = r.w.hsm]
         /\ ca' = r.w.ca
         /\ nextSerial' = r.w.entropy
         /\ raised' = r.raised
         /\ calls' = [calls EXCEPT ![v] =
                         IF NeedsBatch(vehicles[v]) THEN 1
                         ELSE IF @ = Untracked THEN Untracked ELSE @ + 1]
         /\ exchange' = IF r.raised = "none"
                        THEN NewExchange(v, r.payload)
                        ELSE Aged(exchange, v)
    /\ UNCHANGED <<aside, startup, now, revocations, infrastructures>>

\* the simulation registers at most MaxHolders holders
HoldersLeft ==
    Cardinality(DOMAIN vehicles) + Cardinality(DOMAIN infrastructures) < MaxHolders

\* collect_simulation_data registering a vehicle it sees for the first time:
\* the holder is constructed and its batch generated
RegisterVehicle(v) ==
    /\ v \notin DOMAIN vehicles
    /\ HoldersLeft
    /\ SerialsLeft(nextSerial, settings.NO_OF_VEH_CERTS)
    /\ LET w == generate_vehicle_cert(
                    World(VehicleHardwareSecurityModule(v), ca, nextSerial), now) IN
         /\ vehicles' = DictSet(vehicles, v, w.hsm)
         /\ ca' = w.ca
         /\ nextSerial' = w.entropy
         /\ calls' = [calls EXCEPT ![v] = 0]
    /\ UNCHANGED <<aside, startup, now, revocations, infrastructures, exchange, raised>>

\* InfrastructureHardwareSecurityModule(infra_id, self.ca)
NewInfrastructure(i) ==
    /\ i \notin DOMAIN infrastructures
    /\ infrastructures' = DictSet(infrastructures, i, InfrastructureHardwareSecurityModule(i))
    /\ UNCHANGED <<aside, startup, now, ca, nextSerial, revocations, vehicles, calls, exchange, raised>>

\* infrastructures[i].generate_infra_cert()
GenerateInfraCert(i) ==
    /\ i \in DOMAIN infrastructures
    /\ SerialsLeft(nextSerial, 1)
    /\ LET w == generate_infra_cert(World(infrastructures[i], ca, nextSerial), now) IN
         /\ infrastructures' = [infrastructures EXCEPT ![i] = w.hsm]
         /\ ca' = w.ca
         /\ nextSerial' = w.entropy
    /\ UNCHANGED <<aside, startup, now, revocations, vehicles, calls, exchange, raised>>

\* message = infrastructures[i].prepare_message(data)
InfraPrepareMessage(i, data) ==
    /\ i \in DOMAIN infrastructures
    /\ infrastructures[i].message_count < MaxInfraMessages
    /\ LET r == infra_prepare_message(World(infrastructures[i], ca, nextSerial), data, now) IN
         /\ infrastructures' = [infrastructures EXCEPT ![i] = r.w.hsm]
         /\ raised' = r.raised
         /\ exchange' = IF r.raised = "none"
                        THEN NewExchange(i, r.payload)
                        ELSE Aged(exchange, i)
    /\ UNCHANGED <<aside, startup, now, ca, nextSerial, revocations, vehicles, calls>>

\* collect_simulation_data registering a traffic light it sees for the first
\* time: the holder is constructed and its credential generated
RegisterInfrastructure(i) ==
    /\ i \notin DOMAIN infrastructures
    /\ HoldersLeft
    /\ SerialsLeft(nextSerial, 1)
    /\ LET w == generate_infra_cert(
                    World(InfrastructureHardwareSecurityModule(i), ca, nextSerial), now) IN
         /\ infrastructures' = DictSet(infrastructures, i, w.hsm)
         /\ ca' = w.ca
         /\ nextSerial' = w.entropy
    /\ UNCHANGED <<aside, startup, now, revocations, vehicles, calls, exchange, raised>>

\* serials handed out so far, and one that is never issued
IssuedSerials == 1 .. (nextSerial - 1)
RevocableSerials == IssuedSerials \cup {0}

\* mutant: a revocation takes the credential with that serial out of use at
\* the holder that has it active
AddRevocation_InvalidatesHolder(serial, reason, issuer) ==
    /\ revocations < MaxRevocations
    /\ revocations' = revocations + 1
    /\ ca' = add_revocation(ca, serial, reason, issuer, now)
    /\ vehicles' = [v \in DOMAIN vehicles |->
                       IF vehicles[v].current_certificate.cert.tbs.serial_number = serial
                       THEN [vehicles[v] EXCEPT !.current_private_key = NoneKey,
                                                !.current_certificate = NoneCert]
                       ELSE vehicles[v]]
    /\ UNCHANGED <<aside, startup, now, nextSerial, infrastructures, calls, exchange, raised>>

\* ca.add_revocation(serial, reason, issuer)
AddRevocation(serial, reason, issuer) ==
    /\ revocations < MaxRevocations
    /\ revocations' = revocations + 1
    /\ ca' = add_revocation(ca, serial, reason, issuer, now)
    /\ UNCHANGED <<aside, startup, now, nextSerial, vehicles, infrastructures, calls, exchange, raised>>

\* the entity ids and entity types build_certificate is called with
Entities == Vehicles \cup Infrastructures
EntityTypes == {"vehicle", "infrastructure"}

\* cert = ca.build_certificate(entity_id, entity_type, public_key), called on
\* the authority directly with the public half of a fresh key pair
BuildCertificate(entity_id, entity_type) ==
    /\ nextSerial <= MaxIssued
    /\ LET built == build_certificate(ca, nextSerial, entity_id, entity_type,
                                      PublicKeyOf(GeneratePrivateKey(nextSerial)), now) IN
         ca' = built.ca
    /\ nextSerial' = nextSerial + 1
    /\ UNCHANGED <<aside, startup, now, revocations, vehicles, infrastructures, calls, exchange, raised>>

\* ca.add_revocation(serial, reason, issuer), called on the authority directly
AuthorityAddRevocation(serial, reason, issuer) ==
    /\ revocations < MaxAuthorityRevocations
    /\ revocations' = revocations + 1
    /\ ca' = add_revocation(ca, serial, reason, issuer, now)
    /\ UNCHANGED <<aside, startup, now, nextSerial, vehicles, infrastructures, calls, exchange, raised>>

\* the channel hands the receiver something else than was sent
Tamper ==
    /\ exchange # <<>>
    /\ exchange[1].payload = exchange[1].sent
    /\ \E p \in TamperedPayloads(exchange[1].sent) :
         exchange' = <<[exchange[1] EXCEPT !.payload = p, !.verification = NotVerified]>>
    /\ UNCHANGED <<aside, startup, now, ca, nextSerial, revocations, vehicles, infrastructures, calls,
                   raised>>

\* mutant: the verifier revokes the serial of a certificate it does not accept
MessageVerifier_RevokesRejected ==
    /\ exchange # <<>>
    /\ LET result == message_verifier(exchange[1].payload, ca, now) IN
         /\ exchange' = <<[exchange[1] EXCEPT !.verification = result]>>
         /\ ca' = IF result = Returned(Verdict("Verified"))
                  THEN ca
                  ELSE add_revocation(ca, exchange[1].payload.certificate.cert.tbs.serial_number,
                                      "superseded", "V2X-Root-CA", now)
    /\ UNCHANGED <<aside, startup, now, nextSerial, revocations, vehicles, infrastructures, calls,
                   raised>>

\* verification = security_manager.message_verifier(message, self.ca); an
\* exception the call raises is kept in place of the verdict
MessageVerifier ==
    /\ exchange # <<>>
    /\ exchange' = <<[exchange[1] EXCEPT !.verification =
                          message_verifier(exchange[1].payload, ca, now)]>>
    /\ UNCHANGED <<aside, startup, now, ca, nextSerial, revocations, vehicles, infrastructures, calls,
                   raised>>

(***************************************************************************)
(* The program's start (main.py, __main__): the manager is constructed,    *)
(* which constructs the authority and loads its key files; the simulation  *)
(* is started; the simulation loop runs.                                   *)
(***************************************************************************)
\* what load_ca_private_key and load_ca_public_key may find on the disk
KeyMaterial == {"ok", "private key missing", "wrong passphrase", "public key missing"}

\* settings.CERT_VALIDITY as configured: the model's validity, or a negative one
Validities == {CERT_VALIDITY, 0 - 1}

\* no CertifyingAuthority object exists yet
NoAuthority ==
    [ca_pvt_key |-> NoneKey,
     ca_pub_key |-> PublicKeyOf(NoneKey),
     ca_vehicles |-> EmptyDict,
     ca_infrastructures |-> EmptyDict,
     crl |-> EmptyDict]

\* the state before sim_mgr = SimulationManager()
InitStartup ==
    /\ now = 0
    /\ ca = NoAuthority
    /\ nextSerial = 1
    /\ revocations = 0
    /\ vehicles = EmptyDict
    /\ infrastructures = EmptyDict
    /\ calls = [v \in Vehicles |-> Untracked]
    /\ exchange = <<>>
    /\ raised = "none"
    /\ startup \in [phase : {"start"}, keys : KeyMaterial, validity : Validities]
    /\ settings = Configured
    /\ threads = NoThreads
    /\ event = NoEvent

\* the exception open() or load_pem_private_key / load_pem_public_key raises
LoadError(keys) ==
    IF keys = "wrong passphrase" THEN "ValueError" ELSE "FileNotFoundError"

\* mutant: a failed key load is swallowed and the manager is constructed
\* without keys
ConstructSimulationManager_IgnoresLoadError ==
    /\ startup.phase = "start"
    /\ startup' = [startup EXCEPT !.phase = "constructed"]
    /\ ca' = IF startup.keys = "ok" THEN CertifyingAuthority ELSE NoAuthority
    /\ UNCHANGED <<aside, now, nextSerial, revocations, vehicles, infrastructures, calls, exchange,
                   raised>>

\* sim_mgr = SimulationManager(), outside the try block of __main__: the
\* constructor of CertifyingAuthority loads the two key files and validates
\* nothing else; an exception ends the program
ConstructSimulationManager ==
    /\ startup.phase = "start"
    /\ IF startup.keys = "ok"
       THEN /\ startup' = [startup EXCEPT !.phase = "constructed"]
            /\ ca' = CertifyingAuthority
            /\ UNCHANGED raised
       ELSE /\ startup' = [startup EXCEPT !.phase = "aborted"]
            /\ raised' = LoadError(startup.keys)
            /\ UNCHANGED ca
    /\ UNCHANGED <<aside, now, nextSerial, revocations, vehicles, infrastructures, calls, exchange>>

\* sim_mgr.initialize_simulation(): traci.start succeeds, or raises
\* FatalTraCIError, which __main__ logs and raises again
InitializeSimulation ==
    /\ startup.phase = "constructed"
    /\ \/ /\ startup' = [startup EXCEPT !.phase = "running"]
          /\ UNCHANGED raised
       \/ /\ startup' = [startup EXCEPT !.phase = "aborted"]
          /\ raised' = "FatalTraCIError"
    /\ UNCHANGED <<aside, now, ca, nextSerial, revocations, vehicles, infrastructures, calls, exchange>>

\* CertificateBuilder.not_valid_after raises ValueError for a time before
\* not_valid_before
ValidityRejected(validity) == validity < 0

\* collect_simulation_data registering the first entity under a negative
\* validity: build_certificate raises, run_simulation closes the simulation
\* and the exception ends the program
RegistrationRejected ==
    /\ startup.phase = "running"
    /\ ValidityRejected(startup.validity)
    /\ startup' = [startup EXCEPT !.phase = "crashed"]
    /\ raised' = "ValueError"
    /\ UNCHANGED <<aside, now, ca, nextSerial, revocations, vehicles, infrastructures, calls, exchange>>

\* one step of the simulation loop of run_simulation: an entity is registered,
\* a holder prepares a message, the receiver verifies it
SimulationStep ==
    /\ startup.phase = "running"
    /\ ~ ValidityRejected(startup.validity)
    /\ \/ \E v \in Vehicles : RegisterVehicle(v)
       \/ \E v \in Vehicles, data \in FieldMaps : VehiclePrepareMessage(v, data)
       \/ \E i \in Infrastructures : RegisterInfrastructure(i)
       \/ \E i \in Infrastructures, data \in FieldMaps : InfraPrepareMessage(i, data)
       \/ MessageVerifier

(***************************************************************************)
(* The communication handlers of main.py.  Each handler loops over the     *)
(* pairs of entities of a simulation step; an action is one iteration of   *)
(* the loop, for one pair.  What the geometry found for the pair is the    *)
(* event: whether the two are within the channel's distance, whether the   *)
(* first vehicle has a vehicle in front (vehicle to vehicle only), whether *)
(* predict_collision predicted a collision.  exchange holds the handler's  *)
(* locals: the payloads prepared and their verifications, none when the    *)
(* handler prepared nothing.                                               *)
(***************************************************************************)
ChannelVehicles == {"v1", "v2"}
Pedestrians == {"p1"}

V2VEvents ==
    {ev \in [kind : {"v2v"}, sender : ChannelVehicles, receiver : ChannelVehicles,
             proximity : BOOLEAN, front : BOOLEAN, collisionPredicted : BOOLEAN] :
        ev.sender # ev.receiver}

V2PEvents ==
    [kind : {"v2p"}, sender : ChannelVehicles, receiver : Pedestrians,
     proximity : BOOLEAN, collisionPredicted : BOOLEAN]

V2IEvents ==
    [kind : {"v2i"}, sender : Infrastructures, receiver : ChannelVehicles,
     proximity : BOOLEAN, collisionPredicted : BOOLEAN]

\* the field map a handler builds for its sender; the holder does not look
\* at the values
FieldMapOf(ev) == [k \in FieldKeys |-> 0]

\* mutant: vehicles within the distance exchange messages, collision or not
V2VTriggered_ProximityOnly(ev) == ev.proximity

\* handle_v2v_communication: distance <= BSM_DISTANCE, a vehicle in front,
\* will_collide
V2VTriggered(ev) == ev.proximity /\ ev.front /\ ev.collisionPredicted

\* handle_v2p_communication: distance <= PSM_DISTANCE, will_collide
V2PTriggered(ev) == ev.proximity /\ ev.collisionPredicted

\* handle_v2i_communication: a traffic light nearer than MAX_V2I_RANGE;
\* predict_collision is not called
V2ITriggered(ev) == ev.proximity

\* message and verification, as the handler holds them after its
\* message_verifier call
Verification(sender, payload, ca_obj, clock) ==
    [NewExchange(sender, payload)[1] EXCEPT
        !.verification = message_verifier(payload, ca_obj, clock)]

\* the state after the first collect_simulation_data call of a simulation
\* with two vehicles and one traffic light: every holder is registered
InitChannels ==
    LET w1 == generate_vehicle_cert(
                  World(VehicleHardwareSecurityModule("v1"), CertifyingAuthority, 1), 0)
        w2 == generate_vehicle_cert(
                  World(VehicleHardwareSecurityModule("v2"), w1.ca, w1.entropy), 0)
        w3 == generate_infra_cert(
                  World(InfrastructureHardwareSecurityModule("i1"), w2.ca, w2.entropy), 0)
    IN /\ settings = Configured
       /\ now = 0
       /\ ca = w3.ca
       /\ nextSerial = w3.entropy
       /\ revocations = 0
       /\ vehicles = DictSet(DictSet(EmptyDict, "v1", w1.hsm), "v2", w2.hsm)
       /\ infrastructures = DictSet(EmptyDict, "i1", w3.hsm)
       /\ calls = [v \in Vehicles |-> Untracked]
       /\ exchange = <<>>
       /\ raised = "none"
       /\ startup = Started
       /\ threads = NoThreads
       /\ event = NoEvent

\* one iteration of the loops of handle_v2v_communication, for the pair
\* (veh1_id, veh2_id) = (ev.sender, ev.receiver): both vehicles prepare a
\* message, both messages are verified.  A vehicle that would regenerate its
\* batch is not asked (the model issues no further certificates here).
HandleV2V(ev) ==
    /\ event' = ev
    /\ IF V2VTriggered(ev)
       THEN /\ ~ NeedsBatch(vehicles[ev.sender])
            /\ ~ NeedsBatch(vehicles[ev.receiver])
            /\ LET r1 == vehicle_prepare_message(
                             World(vehicles[ev.sender], ca, nextSerial), FieldMapOf(ev), now)
                   r2 == vehicle_prepare_message(
                             World(vehicles[ev.receiver], r1.w.ca, r1.w.entropy),
                             FieldMapOf(ev), now)
               IN /\ vehicles' = [vehicles EXCEPT ![ev.sender] = r1.w.hsm,
                                                  ![ev.receiver] = r2.w.hsm]
                  /\ ca' = r2.w.ca
                  /\ nextSerial' = r2.w.entropy
                  /\ raised' = IF r1.raised # "none" THEN r1.raised ELSE r2.raised
                  /\ exchange' = <<Verification(ev.sender, r1.payload, r2.w.ca, now),
                                   Verification(ev.receiver, r2.payload, r2.w.ca, now)>>
       ELSE /\ exchange' = <<>>
            /\ UNCHANGED <<vehicles, ca, nextSerial, raised>>
    /\ UNCHANGED <<now, revocations, infrastructures, calls, startup, settings, threads>>

\* one iteration of the loops of handle_v2p_communication, for the vehicle
\* ev.sender and the pedestrian ev.receiver
HandleV2P(ev) ==
    /\ event' = ev
    /\ IF V2PTriggered(ev)
       THEN /\ ~ NeedsBatch(vehicles[ev.sender])
            /\ LET r == vehicle_prepare_message(
                            World(vehicles[ev.sender], ca, nextSerial), FieldMapOf(ev), now)
               IN /\ vehicles' = [vehicles EXCEPT ![ev.sender] = r.w.hsm]
                  /\ ca' = r.w.ca
                  /\ nextSerial' = r.w.entropy
                  /\ raised' = r.raised
                  /\ exchange' = <<Verification(ev.sender, r.payload, r.w.ca, now)>>
       ELSE /\ exchange' = <<>>
            /\ UNCHANGED <<vehicles, ca, nextSerial, raised>>
    /\ UNCHANGED <<now, revocations, infrastructures, calls, startup, settings, threads>>

\* one iteration of the vehicle loop of handle_v2i_communication, for the
\* vehicle ev.receiver and the traffic light ev.sender, the closest one if
\* any is in range
HandleV2I(ev) ==
    /\ event' = ev
    /\ IF V2ITriggered(ev)
       THEN /\ infrastructures[ev.sender].message_count < MaxInfraMessages
            /\ LET r == infra_prepare_message(
                            World(infrastructures[ev.sender], ca, nextSerial),
                            FieldMapOf(ev), now)
               IN /\ infrastructures' = [infrastructures EXCEPT ![ev.sender] = r.w.hsm]
                  /\ raised' = r.raised
                  /\ exchange' = <<Verification(ev.sender, r.payload, ca, now)>>
       ELSE /\ exchange' = <<>>
            /\ UNCHANGED <<infrastructures, raised>>
    /\ UNCHANGED <<now, ca, nextSerial, revocations, vehicles, calls, startup, settings,
                   threads>>

ChannelActions ==
    \/ \E ev \in V2VEvents : HandleV2V(ev)
    \/ \E ev \in V2PEvents : HandleV2P(ev)
    \/ \E ev \in V2IEvents : HandleV2I(ev)

(***************************************************************************)
(* Two threads of control calling prepare_message on one vehicle holder.   *)
(* The class takes no lock, so the calls interleave; a step of a thread is *)
(* one statement of security_manager.py, named by its line, which is the   *)
(* coarsest interleaving an interpreter can produce (a statement that      *)
(* reads and writes an attribute is taken as one step).  Each thread has   *)
(* its position pc, the number of calls it has finished, the locals of the *)
(* call it is in, and the payload or the exception its last call ended     *)
(* with.                                                                   *)
(***************************************************************************)
Threads == {1, 2}

\* calls a thread makes at most
MaxThreadCalls == 3

\* the holder the threads share
Shared == "v1"

IdleThread ==
    [pc |-> "idle", done |-> 0, i |-> 0, private_key |-> NoneKey, cert |-> NoneCert,
     signature |-> Base64Encode(Sign(NoneKey, <<>>)), message |-> <<>>,
     payload |-> NoPayload, raised |-> "none"]

\* the state after collect_simulation_data registered the vehicle, with two
\* threads about to use its holder
InitThreads ==
    /\ settings = Configured
    /\ LET w == generate_vehicle_cert(
                    World(VehicleHardwareSecurityModule(Shared), CertifyingAuthority, 1), 0)
       IN /\ ca = w.ca
          /\ nextSerial = w.entropy
          /\ vehicles = DictSet(EmptyDict, Shared, w.hsm)
    /\ now = 0
    /\ revocations = 0
    /\ infrastructures = EmptyDict
    /\ calls = [v \in Vehicles |-> Untracked]
    /\ exchange = <<>>
    /\ raised = "none"
    /\ startup = Started
    /\ threads = [t \in Threads |-> IdleThread]
    /\ event = NoEvent

\* thread t moves on to the statement at line
Goto(t, line) == threads' = [threads EXCEPT ![t].pc = line]

\* the statement of thread t raises: its call ends with the exception
Throw(t, exception) ==
    threads' = [threads EXCEPT ![t] = [@ EXCEPT !.pc = "idle", !.done = @ + 1,
                                                !.payload = NoPayload,
                                                !.raised = exception]]

\* the shared holder becomes hsm
Store(hsm) == vehicles' = [vehicles EXCEPT ![Shared] = hsm]

\* what no statement of the holder touches
ThreadFrame == UNCHANGED <<now, revocations, infrastructures, calls, exchange, raised,
                           startup, settings, event>>

\* prepare_message is called and certificate_rotation tests the index
Line203(t) ==
    /\ threads[t].pc = "idle"
    /\ threads[t].done < MaxThreadCalls
    /\ Goto(t, IF BatchExhausted(vehicles[Shared]) THEN "205" ELSE "217")
    /\ UNCHANGED <<vehicles, ca, nextSerial>>
    /\ ThreadFrame

\* self.private_key.clear()
Line205(t) ==
    /\ threads[t].pc = "205"
    /\ Store([vehicles[Shared] EXCEPT !.private_key = <<>>])
    /\ Goto(t, "206")
    /\ UNCHANGED <<ca, nextSerial>>
    /\ ThreadFrame

\* self.certificate.clear()
Line206(t) ==
    /\ threads[t].pc = "206"
    /\ Store([vehicles[Shared] EXCEPT !.certificate = <<>>])
    /\ Goto(t, "207")
    /\ UNCHANGED <<ca, nextSerial>>
    /\ ThreadFrame

\* self.message_count = 0
Line207(t) ==
    /\ threads[t].pc = "207"
    /\ Store([vehicles[Shared] EXCEPT !.message_count = 0])
    /\ Goto(t, "208")
    /\ UNCHANGED <<ca, nextSerial>>
    /\ ThreadFrame

\* self.index_number = 0
Line208(t) ==
    /\ threads[t].pc = "208"
    /\ Store([vehicles[Shared] EXCEPT !.index_number = 0])
    /\ Goto(t, "209")
    /\ UNCHANGED <<ca, nextSerial>>
    /\ ThreadFrame

\* self.current_private_key = None
Line209(t) ==
    /\ threads[t].pc = "209"
    /\ Store([vehicles[Shared] EXCEPT !.current_private_key = NoneKey])
    /\ Goto(t, "210")
    /\ UNCHANGED <<ca, nextSerial>>
    /\ ThreadFrame

\* self.current_certificate = None; generate_vehicle_cert is entered
Line210(t) ==
    /\ threads[t].pc = "210"
    /\ Store([vehicles[Shared] EXCEPT !.current_certificate = NoneCert])
    /\ threads' = [threads EXCEPT ![t] = [@ EXCEPT !.pc = "188", !.i = 0]]
    /\ UNCHANGED <<ca, nextSerial>>
    /\ ThreadFrame

\* for _ in range(settings.NO_OF_VEH_CERTS)
Line188(t) ==
    /\ threads[t].pc = "188"
    /\ Goto(t, IF threads[t].i < settings.NO_OF_VEH_CERTS THEN "191" ELSE "196")
    /\ UNCHANGED <<vehicles, ca, nextSerial>>
    /\ ThreadFrame

\* private_key = ...; public_key = ...; cert = self.ca.build_certificate(...)
Line191(t) ==
    /\ threads[t].pc = "191"
    /\ SerialsLeft(nextSerial, 1)
    /\ LET private_key == GeneratePrivateKey(nextSerial)
           built == build_certificate(ca, nextSerial, Shared, "vehicle",
                                      PublicKeyOf(private_key), now)
       IN /\ ca' = built.ca
          /\ threads' = [threads EXCEPT ![t] = [@ EXCEPT !.pc = "192",
                                                        !.private_key = private_key,
                                                        !.cert = built.cert]]
    /\ nextSerial' = nextSerial + 1
    /\ UNCHANGED vehicles
    /\ ThreadFrame

\* self.private_key.append(private_key)
Line192(t) ==
    /\ threads[t].pc = "192"
    /\ Store([vehicles[Shared] EXCEPT !.private_key = Append(@, threads[t].private_key)])
    /\ Goto(t, "193")
    /\ UNCHANGED <<ca, nextSerial>>
    /\ ThreadFrame

\* self.certificate.append(cert), and the loop counter moves on
Line193(t) ==
    /\ threads[t].pc = "193"
    /\ Store([vehicles[Shared] EXCEPT !.certificate = Append(@, threads[t].cert)])
    /\ threads' = [threads EXCEPT ![t] = [@ EXCEPT !.pc = "188", !.i = @ + 1]]
    /\ UNCHANGED <<ca, nextSerial>>
    /\ ThreadFrame

\* self.current_private_key = self.private_key[self.index_number], in
\* generate_vehicle_cert (to line) or in certificate_rotation
SelectKey(t, from, to) ==
    /\ threads[t].pc = from
    /\ LET hsm == vehicles[Shared] IN
         IF hsm.index_number + 1 > Len(hsm.private_key)
         THEN Throw(t, "IndexError") /\ UNCHANGED vehicles
         ELSE /\ Store([hsm EXCEPT !.current_private_key =
                                       hsm.private_key[hsm.index_number + 1]])
              /\ Goto(t, to)
    /\ UNCHANGED <<ca, nextSerial>>
    /\ ThreadFrame

\* self.current_certificate = self.certificate[self.index_number]; both
\* callers go on to the count in prepare_message
SelectCertificate(t, from) ==
    /\ threads[t].pc = from
    /\ LET hsm == vehicles[Shared] IN
         IF hsm.index_number + 1 > Len(hsm.certificate)
         THEN Throw(t, "IndexError") /\ UNCHANGED vehicles
         ELSE /\ Store([hsm EXCEPT !.current_certificate =
                                       hsm.certificate[hsm.index_number + 1]])
              /\ Goto(t, "235")
    /\ UNCHANGED <<ca, nextSerial>>
    /\ ThreadFrame

Line196(t) == SelectKey(t, "196", "197")
Line197(t) == SelectCertificate(t, "197")

\* if self.message_count % (settings.NO_OF_MSG_CERT_ROT - 1) == 0 and ... != 0
Line217(t) ==
    /\ threads[t].pc = "217"
    /\ Goto(t, IF RotationDue(vehicles[Shared]) THEN "218" ELSE "235")
    /\ UNCHANGED <<vehicles, ca, nextSerial>>
    /\ ThreadFrame

\* self.index_number = self.index_number + 1
Line218(t) ==
    /\ threads[t].pc = "218"
    /\ Store([vehicles[Shared] EXCEPT !.index_number = @ + 1])
    /\ Goto(t, "219")
    /\ UNCHANGED <<ca, nextSerial>>
    /\ ThreadFrame

\* self.message_count = 0
Line219(t) ==
    /\ threads[t].pc = "219"
    /\ Store([vehicles[Shared] EXCEPT !.message_count = 0])
    /\ Goto(t, "221")
    /\ UNCHANGED <<ca, nextSerial>>
    /\ ThreadFrame

Line221(t) == SelectKey(t, "221", "222")
Line222(t) == SelectCertificate(t, "222")

\* self.message_count = self.message_count + 1, after the copy of the field
\* map and the timestamp put on the copy, both local (lines 233-234), and
\* before message = json.dumps(...), local as well (line 237)
Line235(t) ==
    /\ threads[t].pc = "235"
    /\ Store([vehicles[Shared] EXCEPT !.message_count = @ + 1])
    /\ threads' = [threads EXCEPT ![t] =
                      [@ EXCEPT !.pc = "238",
                                !.message = JsonDumps(
                                    StampLocal(DictCopy([k \in FieldKeys |-> 0]), now).local)]]
    /\ UNCHANGED <<ca, nextSerial>>
    /\ ThreadFrame

\* signature = base64.b64encode(self.current_private_key.sign(message, ...))
Line238(t) ==
    /\ threads[t].pc = "238"
    /\ IF vehicles[Shared].current_private_key = NoneKey
       THEN Throw(t, "AttributeError")
       ELSE threads' = [threads EXCEPT ![t] =
                           [@ EXCEPT !.pc = "241",
                                     !.signature = Base64Encode(
                                         Sign(vehicles[Shared].current_private_key,
                                              threads[t].message))]]
    /\ UNCHANGED <<vehicles, ca, nextSerial>>
    /\ ThreadFrame

\* return {'message': message, 'signature': signature,
\*         'certificate': self.current_certificate}
Line241(t) ==
    /\ threads[t].pc = "241"
    /\ threads' = [threads EXCEPT ![t] =
                      [@ EXCEPT !.pc = "idle", !.done = @ + 1, !.raised = "none",
                                !.payload = [message |-> threads[t].message,
                                             signature |-> threads[t].signature,
                                             certificate |->
                                                 vehicles[Shared].current_certificate]]]
    /\ UNCHANGED <<vehicles, ca, nextSerial>>
    /\ ThreadFrame

\* the statements of certificate_rotation, generate_vehicle_cert and
\* prepare_message, taken by either thread
NextThreads ==
    \E t \in Threads :
        \/ Line203(t) \/ Line205(t) \/ Line206(t) \/ Line207(t) \/ Line208(t)
        \/ Line209(t) \/ Line210(t) \/ Line188(t) \/ Line191(t) \/ Line192(t)
        \/ Line193(t) \/ Line196(t) \/ Line197(t) \/ Line217(t) \/ Line218(t)
        \/ Line219(t) \/ Line221(t) \/ Line222(t) \/ Line235(t) \/ Line238(t)
        \/ Line241(t)
SpecThreads == InitThreads /\ [][NextThreads]_vars

(***************************************************************************)
(* Threads of control calling the shared authority.  Threads 1 and 2 call  *)
(* build_certificate, each for an entity of its own: thread 1 for a        *)
(* vehicle, as generate_vehicle_cert does call after call, thread 2 for a  *)
(* traffic light, as generate_infra_cert does once.  Thread 3 calls        *)
(* add_revocation.  The class takes no lock; a step is one statement of    *)
(* build_certificate, named by its line (building and signing the          *)
(* certificate touch locals only and go with the first step), or the one   *)
(* statement of add_revocation.  A thread keeps the certificates its calls *)
(* returned and the revocation entries its calls wrote.                    *)
(***************************************************************************)
Builders == {1, 2}
Revokers == {3}

\* the entity a builder thread asks certificates for
EntityOf(t) == IF t = 1 THEN [id |-> "v1", type |-> "vehicle"]
               ELSE [id |-> "i1", type |-> "infrastructure"]

\* calls a builder thread makes at most
CallBudget(t) == IF EntityOf(t).type = "vehicle" THEN MaxThreadCalls ELSE 1

IdleCaller ==
    [pc |-> "idle", done |-> 0, cert |-> NoneCert, returned |-> {}, written |-> EmptyDict]

\* the state after construction of the authority, with the threads about to
\* call it
InitAuthorityThreads ==
    /\ now = 0
    /\ ca = CertifyingAuthority
    /\ nextSerial = 1
    /\ revocations = 0
    /\ vehicles = EmptyDict
    /\ infrastructures = EmptyDict
    /\ calls = [v \in Vehicles |-> Untracked]
    /\ exchange = <<>>
    /\ raised = "none"
    /\ startup = Started
    /\ settings = Configured
    /\ threads = [t \in Builders \cup Revokers |-> IdleCaller]
    /\ event = NoEvent

\* what no statement of the authority touches
AuthorityFrame == UNCHANGED <<now, revocations, vehicles, infrastructures, calls, exchange,
                              raised, startup, settings, event>>

\* where build_certificate goes after the ledger list exists: line 131
\* tests the entity type
AfterList(t) == IF EntityOf(t).type = "vehicle" THEN "132" ELSE "134"

\* build_certificate is called: certificate_number = random_serial_number(),
\* the builder, cert = builder.sign(...), cert = cert.public_bytes(...)
Line110(t) ==
    /\ t \in Builders
    /\ threads[t].pc = "idle"
    /\ threads[t].done < CallBudget(t)
    /\ SerialsLeft(nextSerial, 1)
    /\ threads' = [threads EXCEPT ![t] =
                      [@ EXCEPT !.pc = "128",
                                !.cert = build_certificate(
                                             ca, nextSerial, EntityOf(t).id, EntityOf(t).type,
                                             PublicKeyOf(GeneratePrivateKey(nextSerial)),
                                             now).cert]]
    /\ nextSerial' = nextSerial + 1
    /\ UNCHANGED ca
    /\ AuthorityFrame

\* mutant: the list is created whether the entity has one or not
Line128_CreatesAnyway(t) ==
    /\ t \in Builders
    /\ threads[t].pc = "128"
    /\ Goto(t, "129")
    /\ UNCHANGED <<ca, nextSerial>>
    /\ AuthorityFrame

\* if entity_id not in self.ca_vehicles
Line128(t) ==
    /\ t \in Builders
    /\ threads[t].pc = "128"
    /\ Goto(t, IF EntityOf(t).id \notin DOMAIN ca.ca_vehicles THEN "129" ELSE AfterList(t))
    /\ UNCHANGED <<ca, nextSerial>>
    /\ AuthorityFrame

\* self.ca_vehicles[entity_id] = []
Line129(t) ==
    /\ t \in Builders
    /\ threads[t].pc = "129"
    /\ ca' = [ca EXCEPT !.ca_vehicles = DictSet(@, EntityOf(t).id, <<>>)]
    /\ Goto(t, AfterList(t))
    /\ UNCHANGED nextSerial
    /\ AuthorityFrame

\* self.ca_vehicles[entity_id].append(cert)
Line132(t) ==
    /\ t \in Builders
    /\ threads[t].pc = "132"
    /\ IF EntityOf(t).id \in DOMAIN ca.ca_vehicles
       THEN /\ ca' = [ca EXCEPT !.ca_vehicles[EntityOf(t).id] = Append(@, threads[t].cert)]
            /\ Goto(t, "135")
       ELSE /\ threads' = [threads EXCEPT ![t] = [@ EXCEPT !.pc = "idle", !.done = @ + 1]]
            /\ UNCHANGED ca
    /\ UNCHANGED nextSerial
    /\ AuthorityFrame

\* self.ca_infrastructures[entity_id] = cert
Line134(t) ==
    /\ t \in Builders
    /\ threads[t].pc = "134"
    /\ ca' = [ca EXCEPT !.ca_infrastructures = DictSet(@, EntityOf(t).id, threads[t].cert)]
    /\ Goto(t, "135")
    /\ UNCHANGED nextSerial
    /\ AuthorityFrame

\* return cert
Line135(t) ==
    /\ t \in Builders
    /\ threads[t].pc = "135"
    /\ threads' = [threads EXCEPT ![t] =
                      [@ EXCEPT !.pc = "idle", !.done = @ + 1,
                                !.returned = @ \cup {threads[t].cert}]]
    /\ UNCHANGED <<ca, nextSerial>>
    /\ AuthorityFrame

\* add_revocation is called: self.crl[serial_number] = {...}
Line146(t, serial, reason, issuer) ==
    /\ t \in Revokers
    /\ threads[t].done < MaxAuthorityRevocations
    /\ ca' = add_revocation(ca, serial, reason, issuer, now)
    /\ threads' = [threads EXCEPT ![t] =
                      [@ EXCEPT !.done = @ + 1,
                                !.written = DictSet(@, serial,
                                                    [issuer |-> issuer, date |-> now,
                                                     reason |-> reason])]]
    /\ UNCHANGED nextSerial
    /\ AuthorityFrame

\* the statements of build_certificate and add_revocation, taken by any
\* thread
NextAuthorityThreads ==
    \/ \E t \in Builders :
          \/ Line110(t) \/ Line128(t) \/ Line129(t) \/ Line132(t) \/ Line134(t)
          \/ Line135(t)
    \/ \E t \in Revokers, serial \in RevocableSerials, reason \in Reasons, issuer \in Issuers :
          Line146(t, serial, reason, issuer)
SpecAuthorityThreads == InitAuthorityThreads /\ [][NextAuthorityThreads]_vars

(***************************************************************************)
(* run_simulation: the loop of SimulationManager.  Each pass advances the  *)
(* simulation, collects the data of the entities present (registering the  *)
(* ones seen for the first time) and runs the three communication handlers *)
(* over the collected data.  The variable event holds the position in the  *)
(* pass, the ids of the collected data and the iterations the running      *)
(* handler has still to make.  What the simulator reports (who is present, *)
(* distances, predicted collisions) is any value; the clock is held still. *)
(***************************************************************************)
\* the order in which the simulator lists ids
IdOrder == <<"v1", "v2", "p1", "i1">>

\* the ids of a set as the keys of the collected dict, in that order
Keys(ids) == SelectSeq(IdOrder, LAMBDA id : id \in ids)

RECURSIVE Pairs(_, _)
\* the pairs a loop over first with an inner loop over second goes through
Pairs(first, second) ==
    IF first = <<>> THEN <<>>
    ELSE [n \in 1 .. Len(second) |-> <<Head(first), second[n]>>] \o Pairs(Tail(first), second)

\* for i ... for j ... if i == j: continue
DistinctPairs(ids) == SelectSeq(Pairs(ids, ids), LAMBDA pair : pair[1] # pair[2])

\* self.ca and self.simulation_entities, with the next fresh serial
Manager(ca_obj, vs, is, entropy) ==
    [ca |-> ca_obj, vehicles |-> vs, infrastructures |-> is, entropy |-> entropy]

\* mutant: a vehicle seen for the first time gets its holder, no batch
RegisterSeenVehicle_NoBatch(m, veh_id, clock) ==
    IF veh_id \in DOMAIN m.vehicles THEN m
    ELSE [m EXCEPT !.vehicles = DictSet(@, veh_id, VehicleHardwareSecurityModule(veh_id))]

\* if veh_id not in self.simulation_entities['vehicles']: construct the
\* holder, generate_vehicle_cert()
RegisterSeenVehicle(m, veh_id, clock) ==
    IF veh_id \in DOMAIN m.vehicles THEN m
    ELSE LET w == generate_vehicle_cert(
                      World(VehicleHardwareSecurityModule(veh_id), m.ca, m.entropy), clock)
         IN [m EXCEPT !.vehicles = DictSet(@, veh_id, w.hsm), !.ca = w.ca,
                      !.entropy = w.entropy]

\* if infra_id not in self.simulation_entities['infrastructures']: construct
\* the holder, generate_infra_cert()
RegisterSeenInfrastructure(m, infra_id, clock) ==
    IF infra_id \in DOMAIN m.infrastructures THEN m
    ELSE LET w == generate_infra_cert(
                      World(InfrastructureHardwareSecurityModule(infra_id), m.ca, m.entropy),
                      clock)
         IN [m EXCEPT !.infrastructures = DictSet(@, infra_id, w.hsm), !.ca = w.ca,
                      !.entropy = w.entropy]

RECURSIVE RegisterSeen(_, _, _, _)
\* the vehicle loop, then the infrastructure loop of collect_simulation_data
RegisterSeen(m, veh_ids, infra_ids, clock) ==
    IF veh_ids # <<>>
    THEN RegisterSeen(RegisterSeenVehicle(m, Head(veh_ids), clock), Tail(veh_ids), infra_ids,
                      clock)
    ELSE IF infra_ids # <<>>
    THEN RegisterSeen(RegisterSeenInfrastructure(m, Head(infra_ids), clock), veh_ids,
                      Tail(infra_ids), clock)
    ELSE m

\* serials collect_simulation_data draws for these ids
SerialsToRegister(veh_ids, infra_ids) ==
    settings.NO_OF_VEH_CERTS * Cardinality(veh_ids \ DOMAIN vehicles)
        + Cardinality(infra_ids \ DOMAIN infrastructures)

\* the manager after a holder's prepare_message call returned or raised r
WithVehicle(m, veh_id, r) ==
    [m |-> [m EXCEPT !.vehicles[veh_id] = r.w.hsm, !.ca = r.w.ca, !.entropy = r.w.entropy],
     raised |-> r.raised, payloads |-> <<r.payload>>]
WithInfrastructure(m, infra_id, r) ==
    [m |-> [m EXCEPT !.infrastructures[infra_id] = r.w.hsm],
     raised |-> r.raised, payloads |-> <<r.payload>>]

\* self.simulation_entities['vehicles'][veh_id].prepare_message({...}).
\* Result: the manager afterwards, the exception raised and the payload.
ManagerVehiclePrepare(m, veh_id, clock) ==
    IF veh_id \notin DOMAIN m.vehicles
    THEN [m |-> m, raised |-> "KeyError", payloads |-> <<NoPayload>>]
    ELSE WithVehicle(m, veh_id,
                     vehicle_prepare_message(World(m.vehicles[veh_id], m.ca, m.entropy),
                                             FieldMapOf(veh_id), clock))

\* self.simulation_entities['infrastructures'][closest_infra].prepare_message({...})
ManagerInfraPrepare(m, infra_id, clock) ==
    IF infra_id \notin DOMAIN m.infrastructures
    THEN [m |-> m, raised |-> "KeyError", payloads |-> <<NoPayload>>]
    ELSE WithInfrastructure(m, infra_id,
                            infra_prepare_message(
                                World(m.infrastructures[infra_id], m.ca, m.entropy),
                                FieldMapOf(infra_id), clock))

\* message2 = ...prepare_message({...}) after message1: not reached when
\* the first call raised
ThenSecond(first, second) ==
    [second EXCEPT !.payloads = first.payloads \o @]
ThenVehiclePrepare(first, veh_id, clock) ==
    IF first.raised # "none" THEN first
    ELSE ThenSecond(first, ManagerVehiclePrepare(first.m, veh_id, clock))

\* the position in the pass: the handler running ("step" between passes,
\* "terminated" after an exception left the loop), the keys of sim_data
\* and the iterations left
LoopAt(phase, vs, ps, is, todo) ==
    [kind |-> "loop", phase |-> phase, vehicles |-> vs, pedestrians |-> ps,
     infrastructures |-> is, todo |-> todo]

\* SimulationManager() and initialize_simulation() have returned
InitLoop ==
    /\ settings = Configured
    /\ now = 0
    /\ ca = CertifyingAuthority
    /\ nextSerial = 1
    /\ revocations = 0
    /\ vehicles = EmptyDict
    /\ infrastructures = EmptyDict
    /\ calls = [v \in Vehicles |-> Untracked]
    /\ exchange = <<>>
    /\ raised = "none"
    /\ startup = Started
    /\ threads = NoThreads
    /\ event = LoopAt("step", {}, {}, {}, <<>>)

\* what the loop leaves alone
LoopFrame == UNCHANGED <<revocations, calls, startup, settings, threads>>

\* the manager's part of the state after a call
Becomes(m) ==
    /\ ca' = m.ca
    /\ vehicles' = m.vehicles
    /\ infrastructures' = m.infrastructures
    /\ nextSerial' = m.entropy

\* where the loop is after an iteration that raised or returned
AfterIteration(exception) ==
    IF exception # "none"
    THEN LoopAt("terminated", event.vehicles, event.pedestrians, event.infrastructures, <<>>)
    ELSE [event EXCEPT !.todo = Tail(@)]

\* a vehicle that would regenerate its batch is asked only while the model
\* has serials for it
CanAsk(veh_ids) ==
    (\E v \in veh_ids \cap DOMAIN vehicles : NeedsBatch(vehicles[v]))
        => SerialsLeft(nextSerial, settings.NO_OF_VEH_CERTS * Cardinality(veh_ids))

\* traci.simulationStep(); sim_data = self.collect_simulation_data(); then
\* handle_v2v_communication is entered
CollectSimulationData(vs, ps, is) ==
    /\ event.phase = "step"
    /\ SerialsLeft(nextSerial, SerialsToRegister(vs, is))
    /\ Becomes(RegisterSeen(Manager(ca, vehicles, infrastructures, nextSerial),
                            Keys(vs), Keys(is), now))
    /\ event' = LoopAt("v2v", vs, ps, is, DistinctPairs(Keys(vs)))
    /\ UNCHANGED <<now, exchange, raised>>
    /\ LoopFrame

\* the verifications a handler holds after an iteration whose
\* prepare_message calls returned
Verifications(senders, r) ==
    IF r.raised # "none" THEN <<>>
    ELSE [n \in 1 .. Len(senders) |-> Verification(senders[n], r.payloads[n], r.m.ca, now)]

\* the state after the prepare_message and message_verifier calls of an
\* iteration
Prepared(senders, r) ==
    /\ Becomes(r.m)
    /\ raised' = r.raised
    /\ exchange' = Verifications(senders, r)
    /\ event' = AfterIteration(r.raised)

\* the state after an iteration that prepares nothing
Skipped ==
    /\ event' = AfterIteration("none")
    /\ UNCHANGED <<ca, vehicles, infrastructures, nextSerial, raised, exchange>>

\* one iteration of the loops of handle_v2v_communication
V2VIteration(proximity, front, collisionPredicted) ==
    /\ event.phase = "v2v"
    /\ event.todo # <<>>
    /\ IF V2VTriggered([proximity |-> proximity, front |-> front,
                        collisionPredicted |-> collisionPredicted])
       THEN /\ CanAsk({Head(event.todo)[1], Head(event.todo)[2]})
            /\ Prepared(Head(event.todo),
                        ThenVehiclePrepare(
                            ManagerVehiclePrepare(
                                Manager(ca, vehicles, infrastructures, nextSerial),
                                Head(event.todo)[1], now),
                            Head(event.todo)[2], now))
       ELSE Skipped
    /\ UNCHANGED now
    /\ LoopFrame

\* one iteration of the loops of handle_v2p_communication
V2PIteration(proximity, collisionPredicted) ==
    /\ event.phase = "v2p"
    /\ event.todo # <<>>
    /\ IF V2PTriggered([proximity |-> proximity, collisionPredicted |-> collisionPredicted])
       THEN /\ CanAsk({Head(event.todo)[1]})
            /\ Prepared(<<Head(event.todo)[1]>>,
                        ManagerVehiclePrepare(
                            Manager(ca, vehicles, infrastructures, nextSerial),
                            Head(event.todo)[1], now))
       ELSE Skipped
    /\ UNCHANGED now
    /\ LoopFrame

\* one iteration of the vehicle loop of handle_v2i_communication;
\* closest is the traffic light the inner loop found, "none" for None
V2IIteration(closest) ==
    /\ event.phase = "v2i"
    /\ event.todo # <<>>
    /\ closest \in event.infrastructures \cup {"none"}
    /\ IF V2ITriggered([proximity |-> closest # "none"])
       THEN /\ closest \in DOMAIN infrastructures
               => infrastructures[closest].message_count < MaxInfraMessages
            /\ Prepared(<<closest>>,
                        ManagerInfraPrepare(
                            Manager(ca, vehicles, infrastructures, nextSerial), closest, now))
       ELSE Skipped
    /\ UNCHANGED now
    /\ LoopFrame

\* a handler returns and run_simulation goes on: the next handler is
\* entered, or the pass is over
HandlerReturns ==
    /\ event.phase \in {"v2v", "v2p", "v2i"}
    /\ event.todo = <<>>
    /\ event' = IF event.phase = "v2v"
                THEN [event EXCEPT !.phase = "v2p",
                                   !.todo = Pairs(Keys(event.vehicles), Keys(event.pedestrians))]
                ELSE IF event.phase = "v2p"
                THEN [event EXCEPT !.phase = "v2i",
                                   !.todo = Pairs(Keys(event.vehicles), <<"closest">>)]
                ELSE [event EXCEPT !.phase = "step"]
    /\ UNCHANGED <<now, ca, vehicles, infrastructures, nextSerial, raised, exchange>>
    /\ LoopFrame

NextLoop ==
    \/ \E vs \in SUBSET ChannelVehicles, ps \in SUBSET Pedestrians,
          is \in SUBSET Infrastructures :
          CollectSimulationData(vs, ps, is)
    \/ \E proximity \in BOOLEAN, front \in BOOLEAN, collisionPredicted \in BOOLEAN :
          V2VIteration(proximity, front, collisionPredicted)
    \/ \E proximity \in BOOLEAN, collisionPredicted \in BOOLEAN :
          V2PIteration(proximity, collisionPredicted)
    \/ \E closest \in Infrastructures \cup {"none"} : V2IIteration(closest)
    \/ HandlerReturns
SpecLoop == InitLoop /\ [][NextLoop]_vars

ClockActions == Tick \/ ClockStepBack

\* the holder interface, called in any order
VehicleActions ==
    \/ \E v \in Vehicles : NewVehicle(v)
    \/ \E v \in Vehicles : GenerateVehicleCert(v)
    \/ \E v \in Vehicles, data \in FieldMaps : VehiclePrepareMessage(v, data)

\* the holders as the simulation uses them: registered, then asked for payloads
RegisteredVehicleActions ==
    \/ \E v \in Vehicles : RegisterVehicle(v)
    \/ \E v \in Vehicles, data \in FieldMaps : VehiclePrepareMessage(v, data)

RegisteredInfraActions ==
    \/ \E i \in Infrastructures : RegisterInfrastructure(i)
    \/ \E i \in Infrastructures, data \in FieldMaps : InfraPrepareMessage(i, data)

\* the infrastructure holder interface, called in any order
InfraActions ==
    \/ \E i \in Infrastructures : NewInfrastructure(i)
    \/ \E i \in Infrastructures : GenerateInfraCert(i)
    \/ \E i \in Infrastructures, data \in FieldMaps : InfraPrepareMessage(i, data)

RevocationActions ==
    \E serial \in RevocableSerials, reason \in Reasons, issuer \in Issuers :
        AddRevocation(serial, reason, issuer)

\* a vehicle holder alone: construction, batch generation, signing, rotation
NextRotation == ClockActions \/ VehicleActions
SpecRotation == Init /\ [][NextRotation]_vars

\* settings.py as it can be set: a pool of one certificate or more, a
\* rotation period of two messages or more
Settable ==
    [NO_OF_VEH_CERTS : 1 .. NO_OF_VEH_CERTS,
     NO_OF_MSG_CERT_ROT : 2 .. NO_OF_MSG_CERT_ROT]

\* the state after construction under any of these settings
InitSettable ==
    /\ now = 0
    /\ ca = CertifyingAuthority
    /\ nextSerial = 1
    /\ revocations = 0
    /\ vehicles = EmptyDict
    /\ infrastructures = EmptyDict
    /\ calls = [v \in Vehicles |-> Untracked]
    /\ exchange = <<>>
    /\ raised = "none"
    /\ startup = Started
    /\ settings \in Settable
    /\ threads = NoThreads
    /\ event = NoEvent

\* a vehicle holder alone, under every setting of the pool size and of the
\* rotation period
SpecLifetime == InitSettable /\ [][NextRotation]_vars

\* the three handlers, called for any events in any order
NextChannels == ClockActions \/ ChannelActions
SpecChannels == InitChannels /\ [][NextChannels]_vars

\* an infrastructure holder alone: construction, credential generation, signing
NextInfra == ClockActions \/ InfraActions \/ MessageVerifier
SpecInfra == Init /\ [][NextInfra]_vars

\* the authority's interface, called in any order
AuthorityActions ==
    \/ \E entity_id \in Entities, entity_type \in EntityTypes :
          BuildCertificate(entity_id, entity_type)
    \/ \E serial \in RevocableSerials, reason \in Reasons, issuer \in Issuers :
          AuthorityAddRevocation(serial, reason, issuer)

\* the authority alone: issuance and revocation
NextAuthority == ClockActions \/ AuthorityActions
SpecAuthority == Init /\ [][NextAuthority]_vars

\* an infrastructure holder, the authority and a receiver behind a channel
\* that may tamper with the payload
NextVerify ==
    \/ ClockActions
    \/ RegisteredInfraActions
    \/ RevocationActions
    \/ Tamper
    \/ MessageVerifier
SpecVerify == Init /\ [][NextVerify]_vars

\* either kind of holder, the authority and a receiver that gets every payload
\* as it was sent
Next ==
    \/ ClockActions
    \/ RegisteredVehicleActions
    \/ RegisteredInfraActions
    \/ RevocationActions
    \/ MessageVerifier
Spec == Init /\ [][Next]_vars

\* the program from its start
NextStartup ==
    \/ ClockActions
    \/ ConstructSimulationManager
    \/ InitializeSimulation
    \/ RegistrationRejected
    \/ SimulationStep
SpecStartup == InitStartup /\ [][NextStartup]_vars

(***************************************************************************)
(* Vocabulary of the properties                                            *)
(***************************************************************************)
Range(seq) == {seq[n] : n \in DOMAIN seq}

\* every certificate in the authority's issuance ledger
LedgerCertificates ==
    UNION {Range(ca.ca_vehicles[e]) : e \in DOMAIN ca.ca_vehicles}
    \cup {ca.ca_infrastructures[e] : e \in DOMAIN ca.ca_infrastructures}

\* the certificates some holder still stores
HeldCertificates ==
    UNION {Range(vehicles[v].certificate) : v \in DOMAIN vehicles}
    \cup {infrastructures[i].certificate : i \in DOMAIN infrastructures}

\* the canonical messages over the field maps and the clock values
SomeMessages == {JsonDumps(Stamped(d, t)) : d \in FieldMaps, t \in 0 .. MaxTime}

\* the payload the owner of certificate pem produces for message m
GenuinePayload(pem, m) == Payload(m, [sk |-> pem.cert.tbs.public_key.pk], pem)

InsideWindow(pem, t) ==
    /\ pem.cert.tbs.not_valid_before <= t
    /\ t <= pem.cert.tbs.not_valid_after
SerialOf(pem) == pem.cert.tbs.serial_number
Unrevoked(pem) == SerialOf(pem) \notin DOMAIN ca.crl
\* the certificate carries the root authority's signature over its own body
RootSigned(pem) ==
    /\ pem.cert.signature.signer = CAKeyPair
    /\ pem.cert.signature.data = pem.cert.tbs

Verified == Returned(Verdict("Verified"))
HasExchange == exchange # <<>>

\* what the receiver may be handed in place of the payload sent: the payload,
\* and the payload after one or two manipulations
Received ==
    IF ~ HasExchange THEN {}
    ELSE LET once == TamperedPayloads(exchange[1].sent)
         IN {exchange[1].sent, exchange[1].payload} \cup once
            \cup UNION {TamperedPayloads(q) : q \in {r \in once : Decodable(r.certificate)}}

(***************************************************************************)
(* C1: for every certificate in the authority's ledger, also one its       *)
(* holder has rotated past or discarded, the verifier returns Verified on  *)
(* a payload signed with the certificate's own key, whenever the clock is  *)
(* inside the certificate's validity window and its serial is not revoked. *)
(***************************************************************************)
C1_IssuedCertificateVerifies ==
    \A pem \in LedgerCertificates, m \in SomeMessages :
        (InsideWindow(pem, now) /\ Unrevoked(pem))
            => message_verifier(GenuinePayload(pem, m), ca, now) = Verified

\* the receiver got Verified for a payload while a certificate the holder has
\* discarded is inside its window, unrevoked, and verifies as well
C1_Witness ==
    /\ HasExchange
    /\ exchange[1].verification = Verified
    /\ \E pem \in LedgerCertificates \ HeldCertificates :
         /\ InsideWindow(pem, now)
         /\ Unrevoked(pem)
         /\ \E other \in DOMAIN ca.crl : other # SerialOf(pem)
         /\ message_verifier(GenuinePayload(pem, exchange[1].sent.message), ca, now) = Verified

(***************************************************************************)
(* C2 as stated, for certificates the root signed: once serial S is in    *)
(* the revocation list, the verifier returns CertRevoked with S's reason   *)
(* for any payload whose certificate has serial S, whatever the validity   *)
(* window and the payload signature.                                       *)
(***************************************************************************)
C2_RevokedWhateverElse ==
    \A p \in Received :
        (/\ Decodable(p.certificate)
         /\ RootSigned(p.certificate)
         /\ SerialOf(p.certificate) \in DOMAIN ca.crl)
            => /\ message_verifier(p, ca, now).verdict.kind = "CertRevoked"
               /\ message_verifier(p, ca, now).verdict.reason
                      = ca.crl[SerialOf(p.certificate)].reason

(***************************************************************************)
(* C2 amended: once serial S is in the revocation list, the verifier       *)
(* returns CertRevoked with the serial, date and reason of S's entry for   *)
(* any payload whose certificate has serial S, is signed by the root and   *)
(* is inside its validity window, whatever the payload signature.          *)
(***************************************************************************)
C2_RevokedWhenTrustedAndInWindow ==
    \A p \in Received :
        (/\ Decodable(p.certificate)
         /\ RootSigned(p.certificate)
         /\ InsideWindow(p.certificate, now)
         /\ SerialOf(p.certificate) \in DOMAIN ca.crl)
            => message_verifier(p, ca, now)
                   = Returned([kind |-> "CertRevoked",
                               serial |-> SerialOf(p.certificate),
                               date |-> ca.crl[SerialOf(p.certificate)].date,
                               reason |-> ca.crl[SerialOf(p.certificate)].reason])

\* the receiver got CertRevoked, with the entry's reason, for a payload whose
\* message was altered after signing
C2_Witness ==
    /\ HasExchange
    /\ exchange[1].payload.message # exchange[1].sent.message
    /\ exchange[1].payload.certificate = exchange[1].sent.certificate
    /\ SerialOf(exchange[1].payload.certificate) \in DOMAIN ca.crl
    /\ exchange[1].verification.verdict.kind = "CertRevoked"
    /\ exchange[1].verification.verdict.reason
           = ca.crl[SerialOf(exchange[1].payload.certificate)].reason

(***************************************************************************)
(* C3: from a fresh batch (index 0, count 0), calls 1 .. R-1 of            *)
(* prepare_message return the certificate at index 0 and leave the count   *)
(* at the number of calls; call R rotates first and returns the            *)
(* certificate at index 1, which differs from the one at index 0.          *)
(***************************************************************************)
\* the payload the latest prepare_message call on holder h returned
ReturnedTo(h) == IF HasExchange /\ exchange[1].sender = h /\ exchange[1].latest
                 THEN {exchange[1].sent} ELSE {}

BatchSerials(hsm) == {SerialOf(pem) : pem \in Range(hsm.certificate)}

C4_RegenerationAtLastSlot ==
    [][\A v \in Vehicles, data \in FieldMaps :
          (/\ VehiclePrepareMessage(v, data)
           /\ vehicles[v].index_number = settings.NO_OF_VEH_CERTS - 1)
              => /\ Len(vehicles'[v].certificate) = settings.NO_OF_VEH_CERTS
                 /\ Len(vehicles'[v].private_key) = settings.NO_OF_VEH_CERTS
                 /\ vehicles'[v].index_number = 0
                 /\ raised' = "none"
                 /\ exchange' # <<>>
                 /\ exchange'[1].sender = v
                 /\ exchange'[1].latest
                 /\ SerialOf(exchange'[1].sent.certificate) \notin BatchSerials(vehicles[v])
                 /\ exchange'[1].sent.certificate = vehicles'[v].certificate[1]]_vars

\* a holder that signed with every credential of a batch has regenerated: the
\* ledger holds the old batch and the new one, the payload returned carries
\* the first certificate of the new batch
C4_Witness ==
    \E v \in DOMAIN vehicles :
        /\ calls[v] = 1
        /\ Len(ca.ca_vehicles[v]) >= 2 * settings.NO_OF_VEH_CERTS
        /\ Len(vehicles[v].certificate) = settings.NO_OF_VEH_CERTS
        /\ vehicles[v].index_number = 0
        /\ \E p \in ReturnedTo(v) :
              /\ p.certificate = vehicles[v].certificate[1]
              /\ \A n \in 1 .. settings.NO_OF_VEH_CERTS : p.certificate # ca.ca_vehicles[v][n]

(***************************************************************************)
(* The pipeline of the design: decode, root trust, time validity,          *)
(* revocation, payload signature; the first stage that fails decides.      *)
(***************************************************************************)
SignedByCertificateKey(p) ==
    /\ Base64Decode(p.signature).signer = p.certificate.cert.tbs.public_key.pk
    /\ Base64Decode(p.signature).data = p.message

FirstFailingStage(p) ==
    IF ~ (p.certificate.encoding \in {"pem-bytes", "pem-str"}) THEN "MalformedCertificate"
    ELSE IF ~ RootSigned(p.certificate) THEN "CertNotTrusted"
    ELSE IF ~ InsideWindow(p.certificate, now) THEN "CertExpiredOrNotYetValid"
    ELSE IF ~ Unrevoked(p.certificate) THEN "CertRevoked"
    ELSE IF ~ SignedByCertificateKey(p) THEN "SignatureInvalid"
    ELSE "Verified"

(***************************************************************************)
(* C5: the verifier returns, as a verdict, the outcome of the first        *)
(* failing stage in the order decode, root trust, time validity,           *)
(* revocation, payload signature, and Verified only when all five pass.    *)
(***************************************************************************)
C5_FirstFailingStageDecides ==
    \A p \in Received :
        /\ message_verifier(p, ca, now).raised = "none"
        /\ message_verifier(p, ca, now).verdict.kind = FirstFailingStage(p)

\* the part of C5 that the code has: for a certificate that decodes, the four
\* later stages are evaluated in the stated order
StageOrderWhenDecodable ==
    \A p \in Received :
        Decodable(p.certificate)
            => /\ message_verifier(p, ca, now).raised = "none"
               /\ message_verifier(p, ca, now).verdict.kind = FirstFailingStage(p)

(***************************************************************************)
(* C6: for a payload prepare_message returned, whose certificate is        *)
(* inside its window and unrevoked, replacing the message by any other     *)
(* byte string makes the verifier return SignatureInvalid.                 *)
(***************************************************************************)
C6_AlteredMessageInvalid ==
    HasExchange =>
        \A m \in (AlteredMessages(exchange[1].sent.message) \cup SomeMessages)
                    \ {exchange[1].sent.message} :
            (InsideWindow(exchange[1].sent.certificate, now)
             /\ Unrevoked(exchange[1].sent.certificate))
                => message_verifier([exchange[1].sent EXCEPT !.message = m], ca, now)
                       = Returned(Verdict("SignatureInvalid"))

\* the receiver got SignatureInvalid for a payload that differs from the one
\* sent in its message only
C6_Witness ==
    /\ HasExchange
    /\ exchange[1].payload.message # exchange[1].sent.message
    /\ exchange[1].payload = [exchange[1].sent EXCEPT !.message = exchange[1].payload.message]
    /\ InsideWindow(exchange[1].sent.certificate, now)
    /\ Unrevoked(exchange[1].sent.certificate)
    /\ exchange[1].verification = Returned(Verdict("SignatureInvalid"))
    /\ message_verifier(exchange[1].payload, ca, now) = exchange[1].verification

(***************************************************************************)
(* C7: for a certificate the root signed, the verifier returns             *)
(* CertExpiredOrNotYetValid exactly when the clock is before not_before or *)
(* after not_after, whatever the revocation list and the payload           *)
(* signature say.                                                          *)
(***************************************************************************)
C7_ExpiredExactlyOutsideWindow ==
    \A p \in Received :
        (Decodable(p.certificate) /\ RootSigned(p.certificate))
            => ((message_verifier(p, ca, now) = Returned(Verdict("CertExpiredOrNotYetValid")))
                   <=> (now < p.certificate.cert.tbs.not_valid_before
                        \/ now > p.certificate.cert.tbs.not_valid_after))

\* the receiver got CertExpiredOrNotYetValid for an untouched, unrevoked
\* payload after its certificate's not_after
C7_Witness ==
    /\ HasExchange
    /\ exchange[1].payload = exchange[1].sent
    /\ Unrevoked(exchange[1].sent.certificate)
    /\ SignedByCertificateKey(exchange[1].sent)
    /\ now > exchange[1].sent.certificate.cert.tbs.not_valid_after
    /\ exchange[1].verification = Returned(Verdict("CertExpiredOrNotYetValid"))
    /\ message_verifier(exchange[1].payload, ca, now) = exchange[1].verification

(***************************************************************************)
(* C8: the verifier returns Verified only for a certificate of the         *)
(* authority's ledger, and CertNotTrusted for every certificate that does  *)
(* not carry the root's signature over its body, whatever its window, its  *)
(* serial's revocation and the payload signature.                          *)
(***************************************************************************)
C8_NoForgedTrust ==
    \A p \in Received :
        Decodable(p.certificate)
            => /\ ~ RootSigned(p.certificate)
                    => message_verifier(p, ca, now) = Returned(Verdict("CertNotTrusted"))
               /\ message_verifier(p, ca, now) = Verified
                    => PemBytes(p.certificate.cert) \in LedgerCertificates

\* the receiver got CertNotTrusted for a payload an attacker signed with its
\* own key under a certificate of its own authority, inside the window and
\* with an unrevoked serial
C8_Witness ==
    /\ HasExchange
    /\ exchange[1].payload = ForgedPayload(exchange[1].sent)
    /\ SignedByCertificateKey(exchange[1].payload)
    /\ InsideWindow(exchange[1].payload.certificate, now)
    /\ Unrevoked(exchange[1].payload.certificate)
    /\ exchange[1].verification = Returned(Verdict("CertNotTrusted"))
    /\ message_verifier(exchange[1].payload, ca, now) = exchange[1].verification

(***************************************************************************)
(* C9: every message_verifier call returns one of the six verdicts, and    *)
(* MalformedCertificate for a certificate that does not decode; it never   *)
(* raises.                                                                 *)
(***************************************************************************)
SixVerdicts ==
    {"Verified", "CertNotTrusted", "CertExpiredOrNotYetValid", "CertRevoked",
     "SignatureInvalid", "MalformedCertificate"}

C9_VerifierTotal ==
    (HasExchange /\ exchange[1].verification # NotVerified)
        => /\ exchange[1].verification.raised = "none"
           /\ exchange[1].verification.verdict.kind \in SixVerdicts
           /\ ~ Decodable(exchange[1].payload.certificate)
                => exchange[1].verification.verdict.kind = "MalformedCertificate"

(***************************************************************************)
(* C10 as stated: the verifier returns Verified for the payload            *)
(* prepare_message returned for a non-empty field map, whenever the clock  *)
(* is inside the payload certificate's validity window.                    *)
(***************************************************************************)
\* the payload was made from a non-empty field map: its message holds more
\* than the timestamp
FromNonEmptyMap(p) == Len(p.message) > 1

C10_RoundTrip ==
    (HasExchange /\ FromNonEmptyMap(exchange[1].sent))
        => (InsideWindow(exchange[1].sent.certificate, now)
               => message_verifier(exchange[1].sent, ca, now) = Verified)

(***************************************************************************)
(* C10 amended: the verifier returns Verified for the payload              *)
(* prepare_message returned for a non-empty field map, whenever the clock  *)
(* is inside the payload certificate's validity window and the             *)
(* certificate's serial is not in the revocation list.                     *)
(***************************************************************************)
C10_RoundTripUnrevoked ==
    (HasExchange /\ FromNonEmptyMap(exchange[1].sent))
        => ((InsideWindow(exchange[1].sent.certificate, now)
             /\ Unrevoked(exchange[1].sent.certificate))
               => message_verifier(exchange[1].sent, ca, now) = Verified)

\* the receiver got Verified for the payload of a vehicle that has rotated,
\* while another serial is revoked
C10_Witness ==
    /\ HasExchange
    /\ FromNonEmptyMap(exchange[1].sent)
    /\ exchange[1].sender \in DOMAIN vehicles
    /\ vehicles[exchange[1].sender].index_number >= 1
    /\ exchange[1].sent.certificate = vehicles[exchange[1].sender].current_certificate
    /\ ca.crl # EmptyDict
    /\ InsideWindow(exchange[1].sent.certificate, now)
    /\ exchange[1].verification = Verified
    /\ message_verifier(exchange[1].sent, ca, now) = Verified

(***************************************************************************)
(* C11: revocation is permanent: a serial that is a key of the revocation  *)
(* list stays a key across every step: issuance, revocation,               *)
(* prepare_message with its rotations and regenerations, verification and  *)
(* the passing of time.                                                    *)
(***************************************************************************)
C11_RevocationPermanent ==
    [][\A serial \in DOMAIN ca.crl : serial \in DOMAIN ca'.crl]_vars

\* a serial revoked at an earlier time is still revoked after its vehicle has
\* regenerated its batch and the receiver has got a verdict
C11_Witness ==
    /\ HasExchange
    /\ exchange[1].verification # NotVerified
    /\ \E serial \in DOMAIN ca.crl :
         /\ ca.crl[serial].date < now
         /\ \E v \in DOMAIN vehicles :
              /\ Len(ca.ca_vehicles[v]) >= 2 * settings.NO_OF_VEH_CERTS
              /\ \E pem \in Range(vehicles[v].certificate) :
                    pem.cert.tbs.not_valid_before > ca.crl[serial].date

(***************************************************************************)
(* C12: message_verifier has no side effects: a call leaves the            *)
(* authority's revocation list and issuance ledger, and every holder's     *)
(* batch, active index and message count, unchanged.                       *)
(***************************************************************************)
C12_VerifierNoSideEffects ==
    [][MessageVerifier
          => /\ ca'.crl = ca.crl
             /\ ca'.ca_vehicles = ca.ca_vehicles
             /\ ca'.ca_infrastructures = ca.ca_infrastructures
             /\ vehicles' = vehicles
             /\ infrastructures' = infrastructures]_vars

\* the verifier has rejected the payload of a vehicle that has rotated, while
\* the revocation list and the ledger are not empty
C12_Witness ==
    /\ HasExchange
    /\ exchange[1].verification # NotVerified
    /\ exchange[1].verification # Verified
    /\ exchange[1].verification = message_verifier(exchange[1].payload, ca, now)
    /\ exchange[1].sender \in DOMAIN vehicles
    /\ vehicles[exchange[1].sender].index_number >= 1
    /\ vehicles[exchange[1].sender].message_count >= 1
    /\ ca.crl # EmptyDict
    /\ LedgerCertificates # {}

(***************************************************************************)
(* C13: prepare_message of either holder leaves the caller's field map as  *)
(* it was: the same keys and values, and no security timestamp, while the  *)
(* message it signs carries the timestamp.                                 *)
(***************************************************************************)
\* the message has a field under the timestamp key
HasTimestamp(message) == \E field \in Range(message) : field[1] = TimestampKey

\* the caller's map after the call is d, and a call that returned has stamped
\* the message
CallerMapKept(r, d) ==
    /\ r.data = d
    /\ TimestampKey \notin DOMAIN r.data
    /\ r.raised = "none" => HasTimestamp(r.payload.message)

C13_CallerMapUntouched ==
    \A d \in FieldMaps :
        /\ \A v \in DOMAIN vehicles :
              (NeedsBatch(vehicles[v]) => SerialsLeft(nextSerial, settings.NO_OF_VEH_CERTS))
                 => CallerMapKept(
                        vehicle_prepare_message(World(vehicles[v], ca, nextSerial), d, now), d)
        /\ \A i \in DOMAIN infrastructures :
              CallerMapKept(
                  infra_prepare_message(World(infrastructures[i], ca, nextSerial), d, now), d)

\* a holder has returned a stamped message made from a non-empty map, and its
\* next call on such a map returns and leaves the map as it was
C13_Witness ==
    /\ HasExchange
    /\ FromNonEmptyMap(exchange[1].sent)
    /\ HasTimestamp(exchange[1].sent.message)
    /\ \E d \in FieldMaps \ {EmptyDict} :
         \/ \E v \in DOMAIN vehicles :
               /\ exchange[1].sender = v
               /\ ~ NeedsBatch(vehicles[v])
               /\ LET r == vehicle_prepare_message(World(vehicles[v], ca, nextSerial), d, now)
                  IN r.raised = "none" /\ r.data = d /\ HasTimestamp(r.payload.message)
         \/ \E i \in DOMAIN infrastructures :
               /\ exchange[1].sender = i
               /\ LET r == infra_prepare_message(World(infrastructures[i], ca, nextSerial), d, now)
                  IN r.raised = "none" /\ r.data = d /\ HasTimestamp(r.payload.message)

(***************************************************************************)
(* C14: add_revocation(serial, reason, issuer) succeeds for any serial,    *)
(* also one never issued; afterwards the revocation list maps the serial   *)
(* to the given issuer and reason with the current time, a second call for *)
(* the serial replacing the earlier entry; every other entry and the       *)
(* issuance ledger are unchanged.                                          *)
(***************************************************************************)
C14_RevocationKeyedInsert ==
    [][\A serial \in RevocableSerials, reason \in Reasons, issuer \in Issuers :
          /\ revocations < MaxAuthorityRevocations
                => ENABLED AuthorityAddRevocation(serial, reason, issuer)
          /\ AuthorityAddRevocation(serial, reason, issuer)
                => /\ DOMAIN ca'.crl = DOMAIN ca.crl \cup {serial}
                   /\ ca'.crl[serial] = [issuer |-> issuer, date |-> now, reason |-> reason]
                   /\ \A other \in DOMAIN ca.crl \ {serial} : ca'.crl[other] = ca.crl[other]
                   /\ ca'.ca_vehicles = ca.ca_vehicles
                   /\ ca'.ca_infrastructures = ca.ca_infrastructures]_vars

\* two calls were made for a serial the authority never issued: the list holds
\* one entry, with the issuer, reason and time of a call made after time 0
C14_Witness ==
    /\ revocations = 2
    /\ LedgerCertificates # {}
    /\ \E serial \in DOMAIN ca.crl :
         /\ serial \notin IssuedSerials
         /\ DOMAIN ca.crl = {serial}
         /\ ca.crl[serial] = [issuer |-> "V2X-Root-CA", date |-> now, reason |-> "superseded"]
         /\ now > 0

(***************************************************************************)
(* C15: an infrastructure holder never rotates: once its credential is     *)
(* generated, every prepare_message call returns, raises its message count *)
(* by exactly one, keeps its key and certificate, and returns a payload    *)
(* carrying that certificate.                                              *)
(***************************************************************************)
C15_InfrastructureNeverRotates ==
    [][\A i \in Infrastructures, data \in FieldMaps :
          (/\ InfraPrepareMessage(i, data)
           /\ infrastructures[i].certificate # NoneCert)
              => /\ infrastructures'[i].message_count = infrastructures[i].message_count + 1
                 /\ infrastructures'[i].certificate = infrastructures[i].certificate
                 /\ infrastructures'[i].private_key = infrastructures[i].private_key
                 /\ raised' = "none"
                 /\ exchange' # <<>>
                 /\ exchange'[1].sender = i
                 /\ exchange'[1].sent.certificate = infrastructures[i].certificate
                 /\ ca' = ca]_vars

\* the holder has made as many calls as the bound allows and the last payload
\* carries its one certificate, the one the ledger has for it
C15_Witness ==
    \E i \in DOMAIN infrastructures :
        /\ infrastructures[i].message_count = MaxInfraMessages
        /\ infrastructures[i].message_count >= settings.NO_OF_MSG_CERT_ROT - 1
        /\ \E p \in ReturnedTo(i) :
              /\ p.certificate = infrastructures[i].certificate
              /\ p.certificate = ca.ca_infrastructures[i]
              /\ Len(ca.ca_vehicles[i]) = 0

(***************************************************************************)
(* C16: verification is deterministic in its explicit inputs: two          *)
(* evaluations of message_verifier(payload, ca) on the same payload with   *)
(* the authority in the same state return the same verdict; the verdict    *)
(* does not depend on a clock read inside the verifier.                    *)
(***************************************************************************)
C16_VerdictFromExplicitInputs ==
    [][(HasExchange /\ exchange' = exchange /\ ca' = ca)
          => message_verifier(exchange'[1].payload, ca', now')
                 = message_verifier(exchange[1].payload, ca, now)]_vars

(***************************************************************************)
(* C17: the issuance ledger is append-only: every certificate              *)
(* build_certificate returns, for a vehicle or an infrastructure entity,   *)
(* is in the ledger under its entity id from then on, also after further   *)
(* certificates are issued to the same entity id.                          *)
(***************************************************************************)
\* the certificates the ledger of ca_obj holds under an entity id
VehicleLedgerUnder(ca_obj, entity_id) ==
    IF entity_id \in DOMAIN ca_obj.ca_vehicles
    THEN Range(ca_obj.ca_vehicles[entity_id]) ELSE {}
InfraLedgerUnder(ca_obj, entity_id) ==
    IF entity_id \in DOMAIN ca_obj.ca_infrastructures
    THEN {ca_obj.ca_infrastructures[entity_id]} ELSE {}
LedgerUnder(ca_obj, entity_id) ==
    VehicleLedgerUnder(ca_obj, entity_id) \cup InfraLedgerUnder(ca_obj, entity_id)

\* the certificate a build_certificate call made now returns
ReturnedCertificate(entity_id, entity_type) ==
    build_certificate(ca, nextSerial, entity_id, entity_type,
                      PublicKeyOf(GeneratePrivateKey(nextSerial)), now).cert

C17_LedgerAppendOnly ==
    [][\A entity_id \in Entities :
          /\ LedgerUnder(ca, entity_id) \subseteq LedgerUnder(ca', entity_id)
          /\ \A entity_type \in EntityTypes :
                BuildCertificate(entity_id, entity_type)
                   => ReturnedCertificate(entity_id, entity_type) \in LedgerUnder(ca', entity_id)]_vars

\* the part of C17 that the code has: certificates issued with entity type
\* "vehicle" are appended and stay
VehicleLedgerAppendOnly ==
    [][\A entity_id \in Entities :
          /\ VehicleLedgerUnder(ca, entity_id) \subseteq VehicleLedgerUnder(ca', entity_id)
          /\ BuildCertificate(entity_id, "vehicle")
                => ReturnedCertificate(entity_id, "vehicle")
                       \in VehicleLedgerUnder(ca', entity_id)]_vars

(***************************************************************************)
(* C18: a validity configuration with not_before > not_after (a negative   *)
(* CERT_VALIDITY) is rejected when the authority is constructed at         *)
(* startup: under it the program never gets past its start, and the        *)
(* misconfiguration is never first detected at issuance.                   *)
(***************************************************************************)
C18_ValidityRejectedAtStartup ==
    ValidityRejected(startup.validity) => startup.phase \in {"start", "aborted"}

\* what the code does instead: under a negative validity the authority is
\* constructed and the simulation started, and the program ends only at the
\* first issuance
ValidityDetectedAtIssuance ==
    [][(ValidityRejected(startup.validity) /\ startup'.phase \in {"aborted", "crashed"})
          => \/ startup.phase = "constructed" /\ raised' = "FatalTraCIError"
             \/ startup.phase = "running" /\ raised' = "ValueError"
             \/ startup.keys # "ok"
             \/ startup'.phase = startup.phase]_vars

(***************************************************************************)
(* C19: if loading the root key material fails, the program aborts before  *)
(* any simulation activity: the simulation is never started, no entity is  *)
(* registered, no certificate is issued and no message is prepared or      *)
(* verified.                                                               *)
(***************************************************************************)
NoSimulationActivity ==
    /\ vehicles = EmptyDict
    /\ infrastructures = EmptyDict
    /\ LedgerCertificates = {}
    /\ nextSerial = 1
    /\ exchange = <<>>
    /\ ca = NoAuthority

C19_KeyLoadFailureAborts ==
    startup.keys # "ok"
        => /\ startup.phase \in {"start", "aborted"}
           /\ startup.phase = "aborted" => raised = LoadError(startup.keys)
           /\ NoSimulationActivity

\* the passphrase was wrong: the program has aborted with the exception of the
\* key load and nothing else has happened
C19_Witness ==
    /\ startup.keys = "wrong passphrase"
    /\ startup.phase = "aborted"
    /\ raised = "ValueError"
    /\ NoSimulationActivity

(***************************************************************************)
(* C20: the rotation step at the start of a vehicle prepare_message, when  *)
(* index < N-1, advances the index by exactly 1 and resets the count to 0  *)
(* if and only if count > 0 and count mod (R-1) = 0, and otherwise leaves  *)
(* index, count and the active credential unchanged; a credential is       *)
(* rotated away after R-1 messages, not after R.                           *)
(***************************************************************************)
\* the holder after the rotation step alone
AfterRotation(hsm) == certificate_rotation(World(hsm, ca, nextSerial), now).w.hsm

HoldsFreshBatch(hsm, v, first) ==
    /\ Len(hsm.private_key) = settings.NO_OF_VEH_CERTS
    /\ Len(hsm.certificate) = settings.NO_OF_VEH_CERTS
    /\ \A n \in 1 .. Len(hsm.certificate) :
          /\ SerialOf(hsm.certificate[n]) = first + n - 1
          /\ hsm.certificate[n].cert.tbs.subject = <<"vehicle", v>>
          /\ n <= Len(hsm.private_key)
          /\ hsm.certificate[n].cert.tbs.public_key = PublicKeyOf(hsm.private_key[n])
    /\ hsm.index_number = 0
    /\ hsm.message_count = 0
    /\ hsm.current_private_key = hsm.private_key[1]
    /\ hsm.current_certificate = hsm.certificate[1]

C21_GenerateLeavesFreshBatch ==
    [][\A v \in Vehicles :
          GenerateVehicleCert(v) => HoldsFreshBatch(vehicles'[v], v, nextSerial)]_vars

\* what the code does give: the call made on a holder just constructed
\* leaves the fresh batch
GenerateOnEmptyHolder ==
    [][\A v \in Vehicles :
          (/\ GenerateVehicleCert(v)
           /\ vehicles[v] = VehicleHardwareSecurityModule(v))
              => HoldsFreshBatch(vehicles'[v], v, nextSerial)]_vars

(***************************************************************************)
(* C22: in every reachable state of a vehicle holder that was registered   *)
(* (constructed and given its batch), whatever prepare_message calls were  *)
(* made: the index is in 0 .. N-1, the batch has N pairs, the active key   *)
(* and the active certificate are the pair stored at the index, no other   *)
(* pair of the batch is the active one, and the payload a call returned is *)
(* signed by the private key whose public key is in the payload's          *)
(* certificate.                                                            *)
(***************************************************************************)
\* the slots of the batch whose pair is the holder's active credential
ActiveSlots(hsm) ==
    {n \in 1 .. Len(hsm.certificate) :
        /\ n <= Len(hsm.private_key)
        /\ hsm.private_key[n] = hsm.current_private_key
        /\ hsm.certificate[n] = hsm.current_certificate}

C22_ActiveCredentialIsPairAtIndex ==
    /\ \A v \in DOMAIN vehicles :
          LET hsm == vehicles[v] IN
          /\ hsm.index_number \in 0 .. settings.NO_OF_VEH_CERTS - 1
          /\ Len(hsm.private_key) = settings.NO_OF_VEH_CERTS
          /\ Len(hsm.certificate) = settings.NO_OF_VEH_CERTS
          /\ ActiveSlots(hsm) = {hsm.index_number + 1}
          /\ hsm.current_certificate.cert.tbs.public_key
                = PublicKeyOf(hsm.current_private_key)
    /\ (HasExchange /\ exchange[1].sender \in DOMAIN vehicles)
          => SignedByCertificateKey(exchange[1].sent)

\* a holder that rotated to the second slot and returned a payload from it
C22_Witness ==
    \E v \in DOMAIN vehicles :
        /\ vehicles[v].index_number = 1
        /\ vehicles[v].message_count = 1
        /\ \E p \in ReturnedTo(v) :
              /\ p.certificate = vehicles[v].certificate[2]
              /\ SignedByCertificateKey(p)

(***************************************************************************)
(* C23: a revocation leaves every holder as it was: an add_revocation call *)
(* changes no holder's batch, index, count or active credential; a later   *)
(* prepare_message call does to the holder, and returns, what it would     *)
(* with an empty revocation list, so the holder goes on signing with a     *)
(* revoked credential until its count-driven rotation; and the verifier    *)
(* answers CertRevoked for such a payload evaluated inside the             *)
(* certificate's validity window.                                          *)
(***************************************************************************)
\* the authority with nothing revoked
WithoutRevocations(ca_obj) == [ca_obj EXCEPT !.crl = EmptyDict]

C23_RevocationLeavesHolders ==
    [][/\ (\E serial \in RevocableSerials, reason \in Reasons, issuer \in Issuers :
              AddRevocation(serial, reason, issuer))
          => /\ vehicles' = vehicles
             /\ infrastructures' = infrastructures
       /\ \A v \in Vehicles, data \in FieldMaps :
             VehiclePrepareMessage(v, data)
                => LET r == vehicle_prepare_message(
                               World(vehicles[v], WithoutRevocations(ca), nextSerial),
                               data, now)
                   IN /\ vehicles'[v] = r.w.hsm
                      /\ raised' = r.raised
                      /\ r.raised = "none" => exchange'[1].sent = r.payload
                      /\ ca'.crl = ca.crl
       /\ \A i \in Infrastructures, data \in FieldMaps :
             InfraPrepareMessage(i, data)
                => LET r == infra_prepare_message(
                               World(infrastructures[i], WithoutRevocations(ca), nextSerial),
                               data, now)
                   IN /\ infrastructures'[i] = r.w.hsm
                      /\ r.raised = "none" => exchange'[1].sent = r.payload
       /\ (/\ MessageVerifier
           /\ exchange[1].payload = exchange[1].sent
           /\ ~ Unrevoked(exchange[1].sent.certificate)
           /\ InsideWindow(exchange[1].sent.certificate, now))
          => exchange'[1].verification.verdict.kind = "CertRevoked"]_vars

\* a vehicle holder whose active certificate is on the revocation list: it
\* still holds its whole batch with that credential active, the payload its
\* latest call returned carries the revoked certificate and is signed by its
\* key, and the verifier answered CertRevoked
C23_Witness ==
    \E v \in DOMAIN vehicles :
        /\ ~ Unrevoked(vehicles[v].current_certificate)
        /\ Len(vehicles[v].certificate) = settings.NO_OF_VEH_CERTS
        /\ vehicles[v].message_count >= 1
        /\ \E p \in ReturnedTo(v) :
              /\ p.certificate = vehicles[v].current_certificate
              /\ SignedByCertificateKey(p)
              /\ exchange[1].verification.verdict.kind = "CertRevoked"

(***************************************************************************)
(* C24: an infrastructure entity is issued one key pair and certificate,   *)
(* once: whatever operations follow, generate_infra_cert calls on the same *)
(* holder included, a holder that has a credential keeps that credential   *)
(* and the authority issues no further certificate for its id.             *)
(***************************************************************************)
C24_InfrastructureIssuedOnce ==
    [][\A i \in DOMAIN infrastructures :
          infrastructures[i].certificate # NoneCert
             => /\ i \in DOMAIN infrastructures'
                /\ infrastructures'[i].certificate = infrastructures[i].certificate
                /\ infrastructures'[i].private_key = infrastructures[i].private_key
                /\ nextSerial' = nextSerial]_vars

\* what the code does give: the program registers an infrastructure id once,
\* and a registered holder keeps its credential
RegisteredInfrastructureKeepsCredential ==
    [][\A i \in DOMAIN infrastructures :
          /\ i \in DOMAIN infrastructures'
          /\ infrastructures'[i].certificate = infrastructures[i].certificate
          /\ infrastructures'[i].private_key = infrastructures[i].private_key
          /\ ca'.ca_infrastructures = ca.ca_infrastructures]_vars

(***************************************************************************)
(* C28: a batch has a fixed lifetime in messages.  For a pool size N >= 1  *)
(* and a rotation period R >= 2, counting the prepare_message calls from a *)
(* freshly generated batch: call k, 1 <= k <= (N-1)*(R-1)+1, is signed     *)
(* with the credential at index (k-1) div (R-1) of that batch, so the      *)
(* credential at index N-1 signs one message, and call (N-1)*(R-1)+2       *)
(* regenerates the batch.  calls[v] counts the calls made since the batch  *)
(* was generated; the call that regenerates is the first call of the new   *)
(* batch.                                                                  *)
(***************************************************************************)
\* the number of messages the claim gives a batch
BatchLifetime ==
    (settings.NO_OF_VEH_CERTS - 1) * (settings.NO_OF_MSG_CERT_ROT - 1) + 1

\* the index the claim gives call k of a batch
SlotOfCall(k) == (k - 1) \div (settings.NO_OF_MSG_CERT_ROT - 1)

\* a prepare_message step on v, the k-th call since the batch was generated,
\* does what the claim says of call k
LifetimeStep(v, k) ==
    /\ raised' = "none"
    /\ exchange' # <<>>
    /\ exchange'[1].sender = v
    /\ SignedByCertificateKey(exchange'[1].sent)
    /\ IF k <= BatchLifetime
       THEN /\ vehicles'[v].certificate = vehicles[v].certificate
            /\ vehicles'[v].private_key = vehicles[v].private_key
            /\ vehicles'[v].index_number = SlotOfCall(k)
            /\ exchange'[1].sent.certificate = vehicles[v].certificate[SlotOfCall(k) + 1]
       ELSE /\ k = BatchLifetime + 1
            /\ vehicles[v].index_number = settings.NO_OF_VEH_CERTS - 1
            /\ Len(vehicles'[v].certificate) = settings.NO_OF_VEH_CERTS
            /\ BatchSerials(vehicles'[v]) \cap BatchSerials(vehicles[v]) = {}
            /\ vehicles'[v].index_number = 0
            /\ exchange'[1].sent.certificate = vehicles'[v].certificate[1]

C30_IndexMonotoneWithinBatch ==
    [][\A v \in Vehicles :
          /\ \A data \in FieldMaps :
                VehiclePrepareMessage(v, data)
                   => /\ \/ /\ vehicles'[v].certificate = vehicles[v].certificate
                            /\ vehicles'[v].private_key = vehicles[v].private_key
                            /\ vehicles'[v].index_number \in
                                  {vehicles[v].index_number, vehicles[v].index_number + 1}
                         \/ /\ vehicles[v].index_number = settings.NO_OF_VEH_CERTS - 1
                            /\ BatchSerials(vehicles'[v]) \cap BatchSerials(vehicles[v]) = {}
                            /\ Len(vehicles'[v].certificate) = settings.NO_OF_VEH_CERTS
                            /\ vehicles'[v].index_number = 0
                      /\ raised' = "none"
                            => exchange'[1].sent.certificate
                                  = vehicles'[v].certificate[vehicles'[v].index_number + 1]
          /\ GenerateVehicleCert(v)
                => vehicles'[v].index_number = vehicles[v].index_number]_vars

\* under a pool of 3 a holder on its first batch has reached the last index
\* and signed from it
C30_Witness ==
    \E v \in DOMAIN vehicles :
        /\ settings.NO_OF_VEH_CERTS = 3
        /\ v \in DOMAIN ca.ca_vehicles
        /\ Len(ca.ca_vehicles[v]) = settings.NO_OF_VEH_CERTS
        /\ vehicles[v].index_number = 2
        /\ \E p \in ReturnedTo(v) : p.certificate = vehicles[v].certificate[3]

(***************************************************************************)
(* C27: in each of the three handlers the sender's prepare_message is      *)
(* called only for an event whose collisionPredicted flag is true; for an  *)
(* event without a predicted collision the handler produces no payload and *)
(* no holder's message count changes.                                      *)
(***************************************************************************)
\* the handler step produced no payload and changed no holder
NothingPrepared ==
    /\ exchange' = <<>>
    /\ vehicles' = vehicles
    /\ infrastructures' = infrastructures

CallsEnded == threads[1].done + threads[2].done

\* no call is under way and none ended with an exception
Quiescent == \A t \in Threads : threads[t].pc = "idle" /\ threads[t].raised = "none"

C25_IndexInRange ==
    vehicles[Shared].index_number \in 0 .. settings.NO_OF_VEH_CERTS - 1

C25_PayloadsMatch ==
    \A t \in Threads :
        threads[t].payload # NoPayload => SignedByCertificateKey(threads[t].payload)

C25_AsOneAfterTheOther ==
    (/\ Quiescent
     /\ CallsEnded \in 1 .. BatchLifetime
     /\ Len(ca.ca_vehicles[Shared]) = settings.NO_OF_VEH_CERTS)
        => /\ vehicles[Shared].index_number = SlotOfCall(CallsEnded)
           /\ vehicles[Shared].message_count
                 = CallsEnded - SlotOfCall(CallsEnded) * (settings.NO_OF_MSG_CERT_ROT - 1)

C25_RotationAtomic ==
    /\ C25_IndexInRange
    /\ C25_PayloadsMatch
    /\ C25_AsOneAfterTheOther

(***************************************************************************)
(* C26: build_certificate and add_revocation on the shared authority       *)
(* behave as if serialized: however concurrent build_certificate calls for *)
(* distinct entities and add_revocation calls interleave, no issued        *)
(* certificate is missing from the ledger, no revocation entry is lost,    *)
(* and each ledger entry is filed under the entity it was issued to.       *)
(***************************************************************************)
\* the entity id a certificate was issued to
IssuedTo(cert) == cert.cert.tbs.subject[2]

\* every certificate a build_certificate call returned is in the ledger
\* under its entity, and the vehicle's list holds one entry per call that
\* got past its append
C26_NothingMissing ==
    \A t \in Builders :
       /\ threads[t].returned \subseteq LedgerUnder(ca, EntityOf(t).id)
       /\ EntityOf(t).type = "vehicle" =>
             Cardinality(VehicleLedgerUnder(ca, EntityOf(t).id))
                 = threads[t].done + (IF threads[t].pc = "135" THEN 1 ELSE 0)

\* the revocation list is what the add_revocation calls wrote
C26_NoRevocationLost ==
    \A t \in Revokers : ca.crl = threads[t].written

\* every ledger entry is under the key of the entity named in it
C26_FiledUnderEntity ==
    /\ \A e \in DOMAIN ca.ca_vehicles :
          \A cert \in Range(ca.ca_vehicles[e]) : IssuedTo(cert) = e
    /\ \A e \in DOMAIN ca.ca_infrastructures : IssuedTo(ca.ca_infrastructures[e]) = e

IsBuildStep(entity_id, entity_type) ==
    /\ nextSerial' = nextSerial + 1
    /\ ca' = build_certificate(ca, nextSerial, entity_id, entity_type,
                               PublicKeyOf(GeneratePrivateKey(nextSerial)), now).ca

\* the list the vehicle ledger has for an id, empty when it has none
ListedUnder(ca_obj, entity_id) ==
    IF entity_id \in DOMAIN ca_obj.ca_vehicles THEN ca_obj.ca_vehicles[entity_id] ELSE <<>>

C32_InfrastructureBuildFrame ==
    \A entity_id \in Entities :
       IsBuildStep(entity_id, "infrastructure") =>
          /\ ca'.ca_vehicles = ca.ca_vehicles
          /\ DOMAIN ca'.ca_infrastructures = DOMAIN ca.ca_infrastructures \cup {entity_id}
          /\ ca'.ca_infrastructures[entity_id] = ReturnedCertificate(entity_id, "infrastructure")
          /\ \A e \in DOMAIN ca.ca_infrastructures \ {entity_id} :
                ca'.ca_infrastructures[e] = ca.ca_infrastructures[e]

C32_VehicleBuildFrame ==
    \A entity_id \in Entities :
       IsBuildStep(entity_id, "vehicle") =>
          /\ ca'.ca_infrastructures = ca.ca_infrastructures
          /\ DOMAIN ca'.ca_vehicles = DOMAIN ca.ca_vehicles \cup {entity_id}
          /\ ca'.ca_vehicles[entity_id]
                = Append(ListedUnder(ca, entity_id), ReturnedCertificate(entity_id, "vehicle"))
          /\ \A e \in DOMAIN ca.ca_vehicles \ {entity_id} :
                ca'.ca_vehicles[e] = ca.ca_vehicles[e]

C32_BuildChangesOwnLedgerOnly ==
    [][C32_InfrastructureBuildFrame /\ C32_VehicleBuildFrame]_vars

\* the vehicle half alone
C32_VehicleBuildOnly == [][C32_VehicleBuildFrame]_vars

(***************************************************************************)
(* C33: prepare_message on a vehicle holder that is still Uninitialized    *)
(* (no batch generated), with N > 1, fails without returning a payload and *)
(* leaves the holder's state unchanged: index and message count are after  *)
(* the failed call what they were before it.                               *)
(***************************************************************************)
\* no batch was generated for the holder
Uninitialized(hsm) ==
    /\ hsm.private_key = <<>>
    /\ hsm.certificate = <<>>
    /\ hsm.current_private_key = NoneKey
    /\ hsm.current_certificate = NoneCert

\* this step is prepare_message(data) on the Uninitialized holder of v
PrepareOnUninitialized(v, data) ==
    /\ VehiclePrepareMessage(v, data)
    /\ Uninitialized(vehicles[v])
    /\ settings.NO_OF_VEH_CERTS > 1

C33_FailedPrepareLeavesHolder ==
    [][\A v \in Vehicles, data \in FieldMaps :
          PrepareOnUninitialized(v, data)
             => /\ raised' # "none"
                /\ ReturnedTo(v)' = {}
                /\ vehicles'[v].index_number = vehicles[v].index_number
                /\ vehicles'[v].message_count = vehicles[v].message_count]_vars

\* what the code does give: the first call on a holder just constructed
\* fails with AttributeError, returns no payload, issues nothing and counts
\* the message
C33_FirstCallFails ==
    [][\A v \in Vehicles, data \in FieldMaps :
          (/\ PrepareOnUninitialized(v, data)
           /\ vehicles[v] = VehicleHardwareSecurityModule(v))
             => /\ raised' = "AttributeError"
                /\ ReturnedTo(v)' = {}
                /\ vehicles'[v] = [vehicles[v] EXCEPT !.message_count = 1]
                /\ ca' = ca]_vars

(***************************************************************************)
(* C31: in the simulation loop every entity is registered with the         *)
(* authority and has its credentials before prepare_message is invoked on  *)
(* it: in each pass, for every vehicle or infrastructure id in the         *)
(* collected data, the holder exists and has an active credential while    *)
(* the communication handlers run, so that signing with no active          *)
(* credential, or on a holder that does not exist, never happens.          *)
(***************************************************************************)
\* the vehicle holder has a batch and an active pair out of it
BatchActive(hsm) ==
    /\ Len(hsm.private_key) = settings.NO_OF_VEH_CERTS
    /\ Len(hsm.certificate) = settings.NO_OF_VEH_CERTS
    /\ hsm.index_number \in 0 .. settings.NO_OF_VEH_CERTS - 1
    /\ hsm.current_private_key # NoneKey
    /\ hsm.current_private_key = hsm.private_key[hsm.index_number + 1]
    /\ hsm.current_certificate = hsm.certificate[hsm.index_number + 1]

\* the infrastructure holder has its key and its certificate
Credentialed(hsm) ==
    /\ hsm.private_key # NoneKey
    /\ hsm.certificate # NoneCert
    /\ hsm.certificate \in InfraLedgerUnder(ca, hsm.infra_id)

HandlersRunning == event.phase \in {"v2v", "v2p", "v2i"}

C31_RegisteredBeforePrepare ==
    /\ HandlersRunning =>
          /\ \A veh_id \in event.vehicles :
                /\ veh_id \in DOMAIN vehicles
                /\ BatchActive(vehicles[veh_id])
                /\ Range(vehicles[veh_id].certificate) \subseteq VehicleLedgerUnder(ca, veh_id)
          /\ \A infra_id \in event.infrastructures :
                /\ infra_id \in DOMAIN infrastructures
                /\ Credentialed(infrastructures[infra_id])
    /\ raised = "none"
    /\ event.phase # "terminated"

\* both vehicles have just exchanged messages that verify, the second
\* vehicle having been registered in a later pass than the traffic light,
\* which has signed too
C31_Witness ==
    /\ event.phase = "v2v"
    /\ event.vehicles = {"v1", "v2"}
    /\ Len(exchange) = 2
    /\ \A n \in 1 .. 2 : exchange[n].verification = Verified
    /\ exchange[1].sender # exchange[2].sender
    /\ "i1" \in DOMAIN infrastructures
    /\ infrastructures["i1"].message_count > 0
    /\ SerialOf(vehicles["v2"].certificate[1]) > SerialOf(infrastructures["i1"].certificate)
    /\ SerialOf(vehicles["v1"].certificate[1]) < SerialOf(infrastructures["i1"].certificate)
====
